---- MODULE Spec2Model ----
(***************************************************************************)
(* Shared-project activity distribution core of vibe-kanban's remote      *)
(* server: the sharded activity broker (crates/remote/src/activity),       *)
(* the websocket session loop (crates/remote/src/ws/session.rs) and the    *)
(* refresh-token rotation endpoint (crates/remote/src/routes/tokens.rs).   *)
(***************************************************************************)
EXTENDS Integers, Sequences, FiniteSets, TLC

(***************************************************************************)
(* Bounds of the model.                                                    *)
(***************************************************************************)
\* Events committed in total, over all projects.
MaxSeq == 4
\* config.activity_default_limit (200 in config.rs:8), scaled to the model.
ActivityDefaultLimit == 2
\* WS_BULK_SYNC_THRESHOLD (500 in utils/src/ws.rs:21), scaled to the model.
BulkSyncThreshold == 3

\* Projects are abstract ids; sessions are numbered.
ProjectIds == {1, 2}
SessionIds == {1}
\* Configurations explored: SERVER_ACTIVITY_BROADCAST_SHARDS,
\* SERVER_ACTIVITY_BROADCAST_CAPACITY (one power of two, one not) and
\* SERVER_ACTIVITY_CATCHUP_BATCH_SIZE.
ShardCounts == {1, 2}
ShardCapacities == {1, 3}
BatchSizes == {1, 2}
ShardIds == 0..1
\* Cursors a client may open a websocket with (None: no cursor parameter).
Cursors == {-1, 0, 1}

\* Option<i64>::None for cursor / last_sent_seq; Some(n) is n >= 0.
None == -1
\* "no broadcast receiver held"
NoStream == -1

Max(a, b) == IF a >= b THEN a ELSE b
Min(a, b) == IF a <= b THEN a ELSE b

VARIABLES
    config,      \* RemoteServerConfig: shard_count, shard_capacity, batch_size
    store,       \* activity table: store[p] = latest committed seq of p (1..store[p] committed)
    published,   \* published[p] = events of p handed to ActivityBroker::publish so far
    shards,      \* shards[i] = every value accepted by shard i's broadcast::Sender, in order
    ws,          \* websocket sessions (ws/session.rs handle)
    auth_sessions,           \* auth_sessions table: user_id, refresh_token_id, revoked_at
    revoked_refresh_tokens,  \* refresh token ids marked revoked by a rotation
    issued,                  \* refresh tokens handed to clients: [session_id, jti]
    next_token_id,           \* the next fresh refresh_token_id (Uuid::new_v4)
    calls,                   \* in-flight and finished POST /tokens/refresh requests
    now,                     \* the clock (Utc::now), in ticks
    requests,                \* requests passing through require_session
    watcher,                 \* the client's project watcher (services/share.rs)
    client,                  \* the client's database and the transaction in flight
    sup,                     \* the client's RemoteSync supervisor and its watcher tasks
    alloc,                   \* the server's sequence allocator and its writers
    conn,                    \* one websocket connection's WsAuthState and inbound frames
    api,                     \* one remote API call of the client (RemoteClient::send)
    wsclient,                \* the client's websocket task and the watcher's close signal
    prune,                   \* the pruning workers, the advisory lock and the partitions
    publisher                \* the publisher handlers, their task, its activity rows and the events published

authVars == <<auth_sessions, revoked_refresh_tokens, issued, next_token_id, calls>>
gateVars == <<now, requests>>
vars == <<config, store, published, shards, ws, authVars, gateVars, watcher, client, sup, alloc, conn, api, wsclient, prune, publisher>>

(***************************************************************************)
(* Activity broker (crates/remote/src/activity/broker.rs)                  *)
(***************************************************************************)
RECURSIVE next_power_of_two(_)
\* usize::next_power_of_two, as applied by tokio's broadcast::channel(capacity).
next_power_of_two(n) == IF n <= 1 THEN 1 ELSE 2 * next_power_of_two((n + 1) \div 2)

\* ActivityBroker::new: shard_count.max(1) senders.
ShardCount == Max(config.shard_count, 1)

\* Number of slots of one shard's ring: broadcast::channel(shard_capacity.max(1))
\* rounds the capacity up to a power of two.
BufferLen == next_power_of_two(Max(config.shard_capacity, 1))

\* DefaultHasher over the project's UUID.  Project ids are abstract: id p stands
\* for a UUID whose hash is congruent to p.
hasher_finish(p) == p

\* Every project on the first shard.
shard_index_first(project_id) == 0

\* ActivityBroker::shard_index
shard_index(project_id) == hasher_finish(project_id) % ShardCount

\* tail.pos of a shard: number of values its sender accepted.
TailPos(i) == Len(shards[i])

\* Receivers alive on shard i (tail.rx_cnt): the streams held by sessions.
\* The receiver created in ActivityBroker::new is dropped at once.
SessionStreams(s) ==
    (IF ws[s].activity_stream # NoStream THEN 1 ELSE 0)
  + (IF ws[s].new_stream # NoStream THEN 1 ELSE 0)

RECURSIVE SumOver(_, _)
SumOver(S, f) == IF S = {} THEN 0
                 ELSE LET x == CHOOSE y \in S : TRUE IN f[x] + SumOver(S \ {x}, f)

rx_cnt(i) ==
    SumOver({s \in SessionIds : ws[s].pc # "closed" /\ shard_index(ws[s].project_id) = i},
            [s \in SessionIds |-> SessionStreams(s)])

\* A send that stores the value also when nobody is subscribed.
broadcast_send_always(chan, receivers, event) == Append(chan, event)

\* broadcast::Sender::send: Err (value dropped) when no receiver is alive,
\* otherwise the value is stored at tail.pos.  Never waits.
broadcast_send(chan, receivers, event) ==
    IF receivers = 0 THEN chan ELSE Append(chan, event)

\* ActivityBroker::publish
publish(event) ==
    LET index == shard_index(event.project_id) IN
    [shards EXCEPT ![index] = broadcast_send(shards[index], rx_cnt(index), event)]

\* broadcast::Receiver::recv on a receiver whose cursor is `next`, as polled by
\* BroadcastStream: Empty (pending), a value, or Lagged(missed) after which the
\* cursor is the oldest retained value.
broadcast_recv(i, next) ==
    LET tail == TailPos(i) IN
    IF next = tail THEN [kind |-> "Empty", next |-> next, event |-> [project_id |-> 0, seq |-> 0], missed |-> 0]
    ELSE IF tail - next > BufferLen
         THEN [kind |-> "Lagged", next |-> tail - BufferLen,
               event |-> [project_id |-> 0, seq |-> 0], missed |-> tail - BufferLen - next]
         ELSE [kind |-> "Ok", next |-> next + 1, event |-> shards[i][next + 1], missed |-> 0]

\* One poll of the stream returned by ActivityBroker::subscribe(project_id):
\* values of other projects are filtered out ("Filtered": the stream polls on).
stream_next(project_id, next) ==
    LET item == broadcast_recv(shard_index(project_id), next) IN
    IF item.kind = "Ok" /\ item.event.project_id # project_id
    THEN [item EXCEPT !.kind = "Filtered"]
    ELSE item

\* ActivityBroker::subscribe: a new receiver starts at the shard's tail.
subscribe(project_id) == TailPos(shard_index(project_id))

(***************************************************************************)
(* Activity store and publisher                                            *)
(***************************************************************************)
\* ActivityRepository::fetch_since(project_id, after_seq, limit): the seqs of the
\* events with seq > after_seq (all when None), ascending, at most `limit`.
fetch_since(project_id, after_seq, limit) ==
    LET lo == IF after_seq = None THEN 0 ELSE after_seq
        n  == Min(limit, Max(store[project_id] - lo, 0))
    IN [i \in 1..n |-> lo + i]

\* A publisher handler commits the task mutation with its activity row
\* (seq = latest + 1) ...
Commit(p) ==
    /\ SumOver(ProjectIds, store) < MaxSeq
    /\ store' = [store EXCEPT ![p] = @ + 1]
    /\ UNCHANGED <<config, publisher, prune, wsclient, api, conn, alloc, sup, client, watcher, published, shards, ws, authVars, gateVars>>

\* ... and publishes it to the broker after the commit, in commit order.
Publish(p) ==
    /\ published[p] < store[p]
    /\ published' = [published EXCEPT ![p] = @ + 1]
    /\ shards' = publish([project_id |-> p, seq |-> published[p] + 1])
    /\ UNCHANGED <<config, publisher, prune, wsclient, api, conn, alloc, sup, client, watcher, store, ws, authVars, gateVars>>

(***************************************************************************)
(* Websocket session (crates/remote/src/ws/session.rs)                     *)
(***************************************************************************)
ClosedSession ==
    [pc |-> "closed", project_id |-> 1, cursor |-> None, last_sent_seq |-> None,
     activity_stream |-> NoStream, new_stream |-> NoStream,
     last_seq |-> 0, target_seq |-> 0, current_seq |-> 0, reason |-> "",
     frames |-> <<>>, error |-> "", opened_upto |-> None, fetched_upto |-> None,
     far_behind |-> FALSE, auth |-> "valid", tick |-> "waiting",
     upgraded |-> FALSE, access |-> ""]

\* The activity frames for `seqs`, tagged with the state that sends them.
ActivityFrames(seqs, state) == [i \in 1..Len(seqs) |-> [seq |-> seqs[i], via |-> state]]

\* Leaving handle(): both streams are dropped.  `error` is the message of the
\* error frame sent last, if any.
Terminated(sess, frames, error) ==
    [sess EXCEPT !.pc = "terminated", !.activity_stream = NoStream,
                 !.new_stream = NoStream, !.frames = frames, !.error = error]

\* handle, lines 44-81: access granted, last_sent_seq = params.cursor, and the
\* session subscribes to the broker.  opened_upto remembers the latest
\* committed seq at that moment, far_behind whether the cursor given was then
\* more than the bulk threshold behind it.  The first tick of
\* auth_check_interval (line 77) is ready at once.  `upgraded` and `access`
\* record what upgrade and handle did with the request.
WsOpen(s, p, cursor) ==
    /\ ws[s].pc = "closed"
    /\ ws' = [ws EXCEPT ![s] = [ClosedSession EXCEPT
                 !.pc = "replay", !.project_id = p, !.cursor = cursor,
                 !.last_sent_seq = cursor, !.activity_stream = subscribe(p),
                 !.opened_upto = store[p], !.tick = "due",
                 !.upgraded = TRUE, !.access = "granted",
                 !.far_behind = (cursor # None /\ store[p] - cursor > BulkSyncThreshold)]]
    /\ UNCHANGED <<config, publisher, prune, wsclient, api, conn, alloc, sup, client, watcher, store, published, shards, authVars, gateVars>>

\* upgrade (ws/mod.rs 25-41): ensure_project_access fails, the request is
\* answered with the error and the socket is never upgraded.
WsUpgradeDenied(s, p, cursor) ==
    /\ ws[s].pc = "closed"
    /\ ws' = [ws EXCEPT ![s] = [ClosedSession EXCEPT
                 !.project_id = p, !.cursor = cursor,
                 !.access = "denied_at_upgrade"]]
    /\ UNCHANGED <<config, publisher, prune, wsclient, api, conn, alloc, sup, client, watcher, store, published, shards, authVars, gateVars>>

\* A handle that subscribes before it returns on a denied access check.
denied_in_handle_subscribed(p, cursor) ==
    [ClosedSession EXCEPT
        !.pc = "terminated", !.project_id = p, !.cursor = cursor,
        !.activity_stream = subscribe(p),
        !.upgraded = TRUE, !.access = "denied_in_handle"]

\* The session handle leaves behind when its own ensure_project_access fails
\* (session.rs 49-63): it returns before line 81, the socket is dropped.
denied_in_handle(p, cursor) ==
    [ClosedSession EXCEPT
        !.pc = "terminated", !.project_id = p, !.cursor = cursor,
        !.upgraded = TRUE, !.access = "denied_in_handle"]

\* upgrade grants access and upgrades the socket, then handle's second
\* ensure_project_access (session.rs 47-63) fails.
WsHandleDenied(s, p, cursor) ==
    /\ ws[s].pc = "closed"
    /\ ws' = [ws EXCEPT ![s] = denied_in_handle(p, cursor)]
    /\ UNCHANGED <<config, publisher, prune, wsclient, api, conn, alloc, sup, client, watcher, store, published, shards, authVars, gateVars>>

\* A subscription taken only after a history read made when the session was
\* opened: the order of handle's lines 81 and 83 exchanged.
replay_source_fetch_first(sess) ==
    LET lo == IF sess.cursor = None THEN 0 ELSE sess.cursor
        n  == Min(ActivityDefaultLimit, Max(sess.opened_upto - lo, 0))
    IN [history |-> [i \in 1..n |-> lo + i],
        stream |-> subscribe(sess.project_id),
        upto |-> sess.opened_upto]

\* handle, lines 81-85: the history is read after the stream was subscribed,
\* and the session goes LIVE on that stream.
replay_source(sess) ==
    [history |-> fetch_since(sess.project_id, sess.cursor, ActivityDefaultLimit),
     stream |-> sess.activity_stream,
     upto |-> store[sess.project_id]]

\* handle, lines 83-93: REPLAY.  fetch_ok = FALSE is a failed fetch_since, which
\* the code skips over; n_sent < Len(history) is a failed socket send (return).
WsReplay(s, fetch_ok, n_sent) ==
    LET sess    == ws[s]
        source  == replay_source(sess)
        history == IF fetch_ok THEN source.history ELSE <<>>
        sent    == ActivityFrames(SubSeq(history, 1, n_sent), "replay")
    IN
    /\ sess.pc = "replay"
    /\ n_sent \in 0..Len(history)
    /\ ws' = [ws EXCEPT ![s] =
          IF n_sent < Len(history)
          THEN Terminated([sess EXCEPT !.opened_upto = None], sent, "")
          ELSE [sess EXCEPT !.pc = "live", !.frames = sent,
                    !.activity_stream = source.stream,
                    !.last_sent_seq = IF history = <<>> THEN sess.cursor
                                      ELSE history[Len(history)],
                    !.opened_upto = None,
                    !.fetched_upto = IF fetch_ok THEN source.upto ELSE None]]
    /\ UNCHANGED <<config, publisher, prune, wsclient, api, conn, alloc, sup, client, watcher, store, published, shards, authVars, gateVars>>

\* The duplicate test with > for >=.
is_duplicate_strict(prev_seq, seq) == prev_seq > seq

\* handle, line 105: a live event at or below the last sent seq is a duplicate.
is_duplicate(prev_seq, seq) == prev_seq >= seq

\* The gap test tolerating one missing event.
is_gap_lenient(prev_seq, seq) == seq > prev_seq + 2

\* handle, line 108: a live event beyond last sent + 1 reveals a gap.
is_gap(prev_seq, seq) == seq > prev_seq + 1

\* Entering activity_stream_catch_up (line 407): a fresh subscription is taken
\* while the session's current stream is still held.
EnterCatchUp(sess, stream_pos, prev_seq, reason) ==
    [sess EXCEPT !.pc = "catchup_wait", !.activity_stream = stream_pos,
                 !.new_stream = subscribe(sess.project_id), !.last_seq = prev_seq,
                 !.reason = reason]

\* A baseline test that takes a missing last_sent_seq for a baseline.
has_baseline_always(last_sent_seq) == TRUE

\* handle, line 143: `let Some(prev_seq) = last_sent_seq else { ... }`.
has_baseline(last_sent_seq) == last_sent_seq # None

\* handle, lines 99-173: one poll of the activity stream in LIVE.
WsLive(s, send_ok) ==
    LET sess == ws[s]
        item == stream_next(sess.project_id, sess.activity_stream)
        prev == sess.last_sent_seq
        seq  == item.event.seq
    IN
    /\ sess.pc = "live"
    /\ item.kind # "Empty"
    /\ ws' = [ws EXCEPT ![s] =
         CASE item.kind = "Filtered" -> [sess EXCEPT !.activity_stream = item.next]
           [] item.kind = "Lagged" ->
                IF ~has_baseline(prev)
                THEN Terminated(sess, sess.frames, "activity backlog dropped")
                ELSE EnterCatchUp(sess, item.next, prev, "lag")
           [] item.kind = "Ok" ->
                IF prev # None /\ is_duplicate(prev, seq)
                THEN [sess EXCEPT !.activity_stream = item.next]
                ELSE IF prev # None /\ is_gap(prev, seq)
                THEN EnterCatchUp(sess, item.next, prev, "gap")
                ELSE IF send_ok
                THEN [sess EXCEPT !.activity_stream = item.next,
                                  !.frames = Append(@, [seq |-> seq, via |-> "live"]),
                                  !.last_sent_seq = seq]
                ELSE Terminated(sess, sess.frames, "")]
    /\ UNCHANGED <<config, publisher, prune, wsclient, api, conn, alloc, sup, client, watcher, store, published, shards, authVars, gateVars>>

\* Returning Ok((seq, stream)) from activity_stream_catch_up to handle
\* (lines 127-130, 164-167): the fresh stream replaces the old one.
ResumeLive(sess, seq, stream_pos, frames) ==
    [sess EXCEPT !.pc = "live", !.last_sent_seq = seq, !.frames = frames,
                 !.activity_stream = stream_pos, !.new_stream = NoStream]

\* The threshold test with >= for >.
exceeds_bulk_limit_inclusive(diff, bulk_limit) == diff >= bulk_limit

\* activity_stream_catch_up, lines 423-424: diff > bulk_limit forces a bulk sync.
exceeds_bulk_limit(diff, bulk_limit) == diff > bulk_limit

\* activity_stream_catch_up, lines 409-434: the next live event of the fresh
\* subscription gives target_seq.
WsCatchUpWait(s) ==
    LET sess   == ws[s]
        item   == stream_next(sess.project_id, sess.new_stream)
        target == item.event.seq
        bulk_limit == Max(BulkSyncThreshold, 1)
    IN
    /\ sess.pc = "catchup_wait"
    /\ item.kind # "Empty"
    /\ ws' = [ws EXCEPT ![s] =
         CASE item.kind = "Filtered" -> [sess EXCEPT !.new_stream = item.next]
           [] item.kind = "Lagged" ->
                Terminated(sess, sess.frames, "activity backlog dropped")
           [] item.kind = "Ok" ->
                IF target <= sess.last_seq
                THEN ResumeLive(sess, sess.last_seq, item.next, sess.frames)
                ELSE IF exceeds_bulk_limit(target - sess.last_seq, bulk_limit)
                THEN Terminated(sess, sess.frames, "activity backlog dropped")
                ELSE [sess EXCEPT !.pc = "catchup_db", !.new_stream = item.next,
                                  !.target_seq = target, !.current_seq = sess.last_seq]]
    /\ UNCHANGED <<config, publisher, prune, wsclient, api, conn, alloc, sup, client, watcher, store, published, shards, authVars, gateVars>>

RECURSIVE catch_up_page_past_target(_, _, _, _)
\* The page loop without the test against target_seq.
catch_up_page_past_target(events, current_seq, target_seq, out) ==
    IF events = <<>>
    THEN [ret |-> "end", current_seq |-> current_seq, out |-> out]
    ELSE LET seq == Head(events) IN
         IF seq <= current_seq
         THEN catch_up_page_past_target(Tail(events), current_seq, target_seq, out)
         ELSE catch_up_page_past_target(Tail(events), seq, target_seq, Append(out, seq))

RECURSIVE catch_up_page(_, _, _, _)
\* catch_up_from_db, lines 492-504: the for loop over one fetched page.
\* "return": the loop returned Ok(current_seq) at an event beyond target_seq.
catch_up_page(events, current_seq, target_seq, out) ==
    IF events = <<>>
    THEN [ret |-> "end", current_seq |-> current_seq, out |-> out]
    ELSE LET seq == Head(events) IN
         IF seq <= current_seq
         THEN catch_up_page(Tail(events), current_seq, target_seq, out)
         ELSE IF seq > target_seq
         THEN [ret |-> "return", current_seq |-> current_seq, out |-> out]
         ELSE catch_up_page(Tail(events), seq, target_seq, Append(out, seq))

\* catch_up_from_db, lines 478-511: one iteration of the paging loop (cursor and
\* current_seq are assigned together and always equal), and the mapping of its
\* result in activity_stream_catch_up, lines 447-454.
WsCatchUpDb(s, fetch_ok, n_sent) ==
    LET sess   == ws[s]
        events == fetch_since(sess.project_id, sess.current_seq, Max(config.batch_size, 1))
        page   == catch_up_page(events, sess.current_seq, sess.target_seq, <<>>)
        frames == sess.frames \o ActivityFrames(SubSeq(page.out, 1, n_sent), "catchup")
    IN
    /\ sess.pc = "catchup_db"
    /\ n_sent \in 0..Len(page.out)
    /\ fetch_ok \/ n_sent = 0
    /\ ws' = [ws EXCEPT ![s] =
         IF ~fetch_ok \/ events = <<>>
         THEN Terminated(sess, sess.frames, "activity backlog dropped")
         ELSE IF n_sent < Len(page.out)
         THEN Terminated(sess, frames, "")
         ELSE IF page.ret = "return" \/ page.current_seq >= sess.target_seq
         THEN ResumeLive(sess, page.current_seq, sess.new_stream, frames)
         ELSE [sess EXCEPT !.current_seq = page.current_seq, !.frames = frames]]
    /\ UNCHANGED <<config, publisher, prune, wsclient, api, conn, alloc, sup, client, watcher, store, published, shards, authVars, gateVars>>

\* handle, lines 175-199: a Close frame, a receive error or the end of the
\* inbound stream ends the session; it is polled in LIVE only.
WsInboundClose(s) ==
    /\ ws[s].pc = "live"
    /\ ws' = [ws EXCEPT ![s] = Terminated(ws[s], ws[s].frames, "")]
    /\ UNCHANGED <<config, publisher, prune, wsclient, api, conn, alloc, sup, client, watcher, store, published, shards, authVars, gateVars>>

(***************************************************************************)
(* Refresh-token rotation (crates/remote/src/routes/tokens.rs)             *)
(***************************************************************************)
\* Sessions 1 and 2 belong to user 1, session 3 to user 2.
AuthSessionIds == {1, 2, 3}
session_user == [s \in AuthSessionIds |-> IF s = 3 THEN 2 ELSE 1]
\* Requests, numbered in order of arrival.
CallIds == {1, 2, 3}

NoSession == [id |-> 0, user_id |-> 0, refresh_token_id |-> 0, revoked_at |-> FALSE,
              session_secret_hash |-> 0, created_at |-> 0, last_used_at |-> None]
NoToken == [form |-> "", expired |-> FALSE, session_id |-> 0, user_id |-> 0, jti |-> 0]
IdleCall == [pc |-> "idle", token |-> NoToken, session |-> NoSession,
             new_token_id |-> 0, result |-> ""]

\* What a client can put in TokenRefreshRequest.refresh_token: a refresh token
\* it was given (expired by now or not), an access token of a session, a string
\* that is no signed JWT, or an empty string.
PresentableTokens ==
    {[form |-> "refresh", expired |-> e, session_id |-> t.session_id,
      user_id |-> session_user[t.session_id], jti |-> t.jti] : t \in issued, e \in BOOLEAN}
    \cup {[NoToken EXCEPT !.form = "access", !.expired = e, !.session_id = s,
                          !.user_id = session_user[s]] : s \in AuthSessionIds, e \in BOOLEAN}
    \cup {[NoToken EXCEPT !.form = f] : f \in {"malformed", "empty"}}

\* JwtService::decode_refresh_token.  An empty token is JwtError::InvalidToken;
\* every failure of jsonwebtoken::decode (bad signature or encoding, claims that
\* do not deserialize, ExpiredSignature, InvalidAudience) passes through `?`
\* and #[from] as JwtError::Jwt.
decode_refresh_token(token) ==
    IF token.form = "empty"
    THEN [ok |-> FALSE, err |-> "InvalidToken"]
    ELSE IF token.form = "malformed"
    THEN [ok |-> FALSE, err |-> "Jwt(InvalidToken)"]
    ELSE IF token.form = "access"
    THEN [ok |-> FALSE, err |-> "Jwt(Json)"]
    ELSE IF token.expired
    THEN [ok |-> FALSE, err |-> "Jwt(ExpiredSignature)"]
    ELSE [ok |-> TRUE, err |-> ""]

\* refresh_token, lines 52-56: the match on the decode error.
decode_error(err) == IF err = "TokenExpired" THEN "TokenExpired" ELSE "InvalidToken"

\* impl IntoResponse for TokenRefreshError: the error code of the 401/500 body.
error_code(error) ==
    CASE error = "InvalidToken" -> "invalid_token"
      [] error = "TokenExpired" -> "token_expired"
      [] error = "SessionRevoked" -> "session_revoked"
      [] error = "TokenReuseDetected" -> "token_reuse_detected"
      [] error = "Jwt" -> "invalid_token"
      [] error = "Identity" -> "identity_error"
      [] error \in {"Database", "SessionError"} -> "internal_error"

\* Returning Err(error) from refresh_token.
Failed(call, error) == [call EXCEPT !.pc = "done", !.result = error_code(error)]

\* AuthSessionRepository::revoke_all_user_sessions
revoke_all_user_sessions(user_id) ==
    [s \in AuthSessionIds |->
        IF auth_sessions[s].user_id = user_id
        THEN [auth_sessions[s] EXCEPT !.revoked_at = TRUE]
        ELSE auth_sessions[s]]

\* AuthSessionRepository::is_refresh_token_revoked
is_refresh_token_revoked(token_id) == token_id \in revoked_refresh_tokens

\* AuthSessionRepository::rotate_tokens: the compare-and-swap of the session's
\* refresh_token_id from the old id to the new one.
rotate_tokens_swaps(session_id, old_token_id) ==
    auth_sessions[session_id].refresh_token_id = old_token_id

\* refresh_token, lines 52-56: the request arrives and its token is decoded.
RefreshDecode(c, token) ==
    LET decoded == decode_refresh_token(token) IN
    /\ calls[c].pc = "idle"
    /\ \A d \in CallIds : d < c => calls[d].pc # "idle"
    /\ calls' = [calls EXCEPT ![c] =
          IF decoded.ok
          THEN [@ EXCEPT !.pc = "get", !.token = token]
          ELSE Failed([@ EXCEPT !.token = token], decode_error(decoded.err))]
    /\ UNCHANGED <<config, publisher, prune, wsclient, api, conn, alloc, sup, client, watcher, store, published, shards, ws, gateVars,
                   auth_sessions, revoked_refresh_tokens, issued, next_token_id>>

\* refresh_token, line 64: a token that is not the session's current one is a
\* reuse at once (|| short-circuits); otherwise the revoked set is asked.
is_reused(session_token_id, token_id) ==
    IF session_token_id # token_id THEN "revoke_all" ELSE "check_revoked"

\* refresh_token, lines 58-64: the session is loaded; a revoked one is rejected.
RefreshGet(c, db_ok) ==
    LET call    == calls[c]
        session == auth_sessions[call.token.session_id]
    IN
    /\ call.pc = "get"
    /\ calls' = [calls EXCEPT ![c] =
          IF ~db_ok THEN Failed(call, "SessionError")
          ELSE IF session.revoked_at
          THEN Failed([call EXCEPT !.session = session], "SessionRevoked")
          ELSE [call EXCEPT !.session = session,
                            !.pc = is_reused(session.refresh_token_id, call.token.jti)]]
    /\ UNCHANGED <<config, publisher, prune, wsclient, api, conn, alloc, sup, client, watcher, store, published, shards, ws, gateVars,
                   auth_sessions, revoked_refresh_tokens, issued, next_token_id>>

\* refresh_token, lines 65-68: is_refresh_token_revoked(token_details.refresh_token_id)
RefreshCheckRevoked(c, db_ok) ==
    LET call == calls[c] IN
    /\ call.pc = "check_revoked"
    /\ calls' = [calls EXCEPT ![c] =
          IF ~db_ok THEN Failed(call, "SessionError")
          ELSE IF is_refresh_token_revoked(call.token.jti)
          THEN [call EXCEPT !.pc = "revoke_all"]
          ELSE [call EXCEPT !.pc = "fetch_user"]]
    /\ UNCHANGED <<config, publisher, prune, wsclient, api, conn, alloc, sup, client, watcher, store, published, shards, ws, gateVars,
                   auth_sessions, revoked_refresh_tokens, issued, next_token_id>>

\* refresh_token, lines 69-79 and 95-105: every session of the token's user is
\* revoked and the call fails with TokenReuseDetected.
RefreshRevokeAll(c, db_ok) ==
    LET call == calls[c] IN
    /\ call.pc = "revoke_all"
    /\ IF db_ok
       THEN /\ auth_sessions' = revoke_all_user_sessions(call.token.user_id)
            /\ calls' = [calls EXCEPT ![c] = Failed(call, "TokenReuseDetected")]
       ELSE /\ auth_sessions' = auth_sessions
            /\ calls' = [calls EXCEPT ![c] = Failed(call, "SessionError")]
    /\ UNCHANGED <<config, publisher, prune, wsclient, api, conn, alloc, sup, client, watcher, store, published, shards, ws, gateVars,
                   revoked_refresh_tokens, issued, next_token_id>>

\* refresh_token, lines 82-88: the user is fetched and a new pair is generated
\* with a fresh refresh_token_id.
RefreshGenerate(c, db_ok) ==
    LET call == calls[c] IN
    /\ call.pc = "fetch_user"
    /\ IF db_ok
       THEN /\ calls' = [calls EXCEPT ![c] =
                   [call EXCEPT !.pc = "rotate", !.new_token_id = next_token_id]]
            /\ next_token_id' = next_token_id + 1
       ELSE /\ calls' = [calls EXCEPT ![c] = Failed(call, "Identity")]
            /\ next_token_id' = next_token_id
    /\ UNCHANGED <<config, publisher, prune, wsclient, api, conn, alloc, sup, client, watcher, store, published, shards, ws, gateVars,
                   auth_sessions, revoked_refresh_tokens, issued>>

\* A handler that answers with the new pair whatever rotate_tokens returned.
after_rotate_ignoring(result) == "ok"

\* refresh_token, lines 90-108: the match on rotate_tokens' result.
after_rotate(result) ==
    CASE result = "Ok" -> "ok"
      [] result = "TokenReuseDetected" -> "revoke_all"
      [] OTHER -> "SessionError"

\* refresh_token, lines 90-114: rotate_tokens(session.id, old, new) and the
\* answer.  db_ok = FALSE is any other error of rotate_tokens.
RefreshRotate(c, db_ok) ==
    LET call    == calls[c]
        sid     == call.session.id
        swapped == db_ok /\ rotate_tokens_swaps(sid, call.token.jti)
        result  == IF ~db_ok THEN "Database"
                   ELSE IF swapped THEN "Ok" ELSE "TokenReuseDetected"
        then    == after_rotate(result)
    IN
    /\ call.pc = "rotate"
    /\ auth_sessions' = IF swapped
                        THEN [auth_sessions EXCEPT ![sid].refresh_token_id = call.new_token_id]
                        ELSE auth_sessions
    /\ revoked_refresh_tokens' = IF swapped
                                 THEN revoked_refresh_tokens \cup {call.token.jti}
                                 ELSE revoked_refresh_tokens
    /\ issued' = IF then = "ok"
                 THEN issued \cup {[session_id |-> sid, jti |-> call.new_token_id]}
                 ELSE issued
    /\ calls' = [calls EXCEPT ![c] =
          CASE then = "ok" -> [call EXCEPT !.pc = "done", !.result = "ok"]
            [] then = "revoke_all" -> [call EXCEPT !.pc = "revoke_all"]
            [] OTHER -> Failed(call, then)]
    /\ UNCHANGED <<config, publisher, prune, wsclient, api, conn, alloc, sup, client, watcher, store, published, shards, ws, gateVars, next_token_id>>

\* AuthSessionRepository::revoke, called for an inactive session by the
\* session middleware.
Revoke(s) ==
    /\ ~auth_sessions[s].revoked_at
    /\ auth_sessions' = [auth_sessions EXCEPT ![s].revoked_at = TRUE]
    /\ UNCHANGED <<config, publisher, prune, wsclient, api, conn, alloc, sup, client, watcher, store, published, shards, ws, gateVars,
                   revoked_refresh_tokens, issued, next_token_id, calls>>

(***************************************************************************)
(* Session gate (crates/remote/src/auth/middleware.rs)                     *)
(***************************************************************************)
\* The clock runs in ticks; a day has TicksPerDay of them.
TicksPerDay == 2
\* MAX_SESSION_INACTIVITY_DURATION (365 days in db/auth.rs:25), scaled.
MaxInactivityDays == 1
\* The clock stops at MaxNow.
MaxNow == 6

\* Request slots; a slot is reused once its request has been answered.
RequestIds == {1, 2}
\* Sessions that bearer tokens name: session 1 and a session whose row is gone.
MissingSessionId == Cardinality(AuthSessionIds) + 1
BearerSessionIds == {1, MissingSessionId}

NoBearer == [form |-> "none", session_id |-> 0, user_id |-> 0, nonce |-> 0]
IdleRequest == [pc |-> "idle", bearer |-> NoBearer, session |-> NoSession,
                status |-> 0, invoked |-> FALSE, revoke |-> ""]

\* What a request can carry: no Authorization header, a bearer that does not
\* decode, or a session token with the session's secret or a rotated one.
Bearers ==
    {NoBearer, [NoBearer EXCEPT !.form = "garbage"]}
    \cup {[form |-> "session", session_id |-> s, user_id |-> 1, nonce |-> n] :
             s \in BearerSessionIds, n \in {0, 1}}

\* JwtService::decode: the identity of a session token, an error otherwise.
jwt_decode(bearer) == bearer.form = "session"

\* JwtService::verify_session_secret(session.session_secret_hash, nonce)
verify_session_secret(session_secret_hash, nonce) == session_secret_hash = nonce

\* date_trunc('day', NOW())
date_trunc_day(t) == t - (t % TicksPerDay)

\* The last activity taken to be the session's creation.
last_activity_at_created(session) == session.created_at

\* AuthSession::last_activity_at
last_activity_at(session) ==
    IF session.last_used_at # None THEN session.last_used_at ELSE session.created_at

\* AuthSession::inactivity_duration
inactivity_duration(session, t) == t - last_activity_at(session)

\* An inactivity test that allows one more day.
is_inactive_lenient(session, t) ==
    inactivity_duration(session, t) > (MaxInactivityDays + 1) * TicksPerDay

\* require_session, line 74
is_inactive(session, t) ==
    inactivity_duration(session, t) > MaxInactivityDays * TicksPerDay

\* A touch that writes the current time on every request.
touch_every_request(session_id) ==
    [auth_sessions EXCEPT ![session_id].last_used_at = now]

\* AuthSessionRepository::touch
touch(session_id) ==
    LET row == auth_sessions[session_id] IN
    IF row.last_used_at = None \/ row.last_used_at < date_trunc_day(now)
    THEN [auth_sessions EXCEPT ![session_id].last_used_at = date_trunc_day(now)]
    ELSE auth_sessions

\* Returning `status` from require_session without running the handler.
Rejected(req, status) == [req EXCEPT !.pc = "done", !.status = status]

\* require_session, lines 34-46: a request arrives; the bearer is extracted
\* and decoded.
GateArrive(r, bearer) ==
    /\ requests[r].pc \in {"idle", "done"}
    /\ requests' = [requests EXCEPT ![r] =
          IF bearer.form = "none" \/ ~jwt_decode(bearer)
          THEN Rejected([IdleRequest EXCEPT !.bearer = bearer], 401)
          ELSE [IdleRequest EXCEPT !.pc = "get", !.bearer = bearer]]
    /\ UNCHANGED <<config, publisher, prune, wsclient, api, conn, alloc, sup, client, watcher, store, published, shards, ws, authVars, now>>

\* require_session, lines 50-83: the session is loaded and tested.
GateGet(r, db_ok) ==
    LET req == requests[r]
        sid == req.bearer.session_id
    IN
    /\ req.pc = "get"
    /\ requests' = [requests EXCEPT ![r] =
          IF ~db_ok THEN Rejected(req, 500)
          ELSE IF sid \notin AuthSessionIds THEN Rejected(req, 401)
          ELSE LET session == auth_sessions[sid]
                   loaded  == [req EXCEPT !.session = session]
               IN
               IF session.revoked_at
                  \/ ~verify_session_secret(session.session_secret_hash, req.bearer.nonce)
               THEN Rejected(loaded, 401)
               ELSE IF is_inactive(session, now)
               THEN [loaded EXCEPT !.pc = "revoke"]
               ELSE [loaded EXCEPT !.pc = "fetch_user"]]
    /\ UNCHANGED <<config, publisher, prune, wsclient, api, conn, alloc, sup, client, watcher, store, published, shards, ws, authVars, now>>

\* require_session, lines 79-82: the inactive session is revoked; a failure of
\* the write is logged only (`revoke` remembers which it was).
GateRevoke(r, db_ok) ==
    LET req == requests[r] IN
    /\ req.pc = "revoke"
    /\ auth_sessions' = IF db_ok
                        THEN [auth_sessions EXCEPT ![req.session.id].revoked_at = TRUE]
                        ELSE auth_sessions
    /\ requests' = [requests EXCEPT ![r] =
                       Rejected([req EXCEPT !.revoke = IF db_ok THEN "done" ELSE "failed"], 401)]
    /\ UNCHANGED <<config, publisher, prune, wsclient, api, conn, alloc, sup, client, watcher, store, published, shards, ws,
                   revoked_refresh_tokens, issued, next_token_id, calls, now>>

\* require_session, lines 85-100: the user is loaded.
GateFetchUser(r, result) ==
    LET req == requests[r] IN
    /\ req.pc = "fetch_user"
    /\ requests' = [requests EXCEPT ![r] =
          CASE result = "Ok" -> [req EXCEPT !.pc = "touch"]
            [] result = "NotFound" -> Rejected(req, 401)
            [] OTHER -> Rejected(req, 500)]
    /\ UNCHANGED <<config, publisher, prune, wsclient, api, conn, alloc, sup, client, watcher, store, published, shards, ws, authVars, now>>

\* require_session, lines 104-115: the session is touched (a failure is logged
\* only) and the wrapped handler runs.
GateTouchAndRun(r, db_ok) ==
    LET req == requests[r] IN
    /\ req.pc = "touch"
    /\ auth_sessions' = IF db_ok THEN touch(req.session.id) ELSE auth_sessions
    /\ requests' = [requests EXCEPT ![r] =
                       [req EXCEPT !.pc = "done", !.status = 200, !.invoked = TRUE]]
    /\ UNCHANGED <<config, publisher, prune, wsclient, api, conn, alloc, sup, client, watcher, store, published, shards, ws,
                   revoked_refresh_tokens, issued, next_token_id, calls, now>>

\* Time passes.
Tick ==
    /\ now < MaxNow
    /\ now' = now + 1
    /\ UNCHANGED <<config, publisher, prune, wsclient, api, conn, alloc, sup, client, watcher, store, published, shards, ws, authVars, requests>>

GateInit ==
    /\ now = 0
    /\ requests = [r \in RequestIds |-> IdleRequest]

\* The auth tables after each session's login: session s holds refresh token s.
AuthInit ==
    /\ auth_sessions = [s \in AuthSessionIds |->
                           [id |-> s, user_id |-> session_user[s],
                            refresh_token_id |-> s, revoked_at |-> FALSE,
                            session_secret_hash |-> 1, created_at |-> 0,
                            last_used_at |-> None]]
    /\ revoked_refresh_tokens = {}
    /\ issued = {[session_id |-> s, jti |-> s] : s \in AuthSessionIds}
    /\ next_token_id = Cardinality(AuthSessionIds) + 1
    /\ calls = [c \in CallIds |-> IdleCall]

(***************************************************************************)
(* Client project watcher (crates/services/src/services/share.rs,          *)
(* share/processor.rs)                                                     *)
(***************************************************************************)
\* The latest seq the watched project may reach on the server.
MaxLatestSeq == 5

\* The bulk syncs of one reconnection are counted up to this number.
MaxBulkSyncs == 2

\* The remote project the watcher follows.
WatchedProject == 1

\* ShareConfig::from_env: activity_page_limit = DEFAULT_ACTIVITY_LIMIT (200),
\* bulk_sync_threshold = WS_BULK_SYNC_THRESHOLD (500), at the model's scale.
activity_page_limit == ActivityDefaultLimit
bulk_sync_threshold == BulkSyncThreshold

\* Backoff (share.rs 91-115), in seconds.
WS_BACKOFF_BASE_DELAY == 1
WS_BACKOFF_MAX_DELAY == 30

\* Backoff::wait: the delay that follows `current`.
backoff_next(current) == Min(2 * current, WS_BACKOFF_MAX_DELAY)

\* A watcher at the head of project_watcher_task's loop, with
\* SharedActivityCursor = cursor and a new Backoff.  last_seq is
\* catch_up_project's local variable, socket the state of the websocket client
\* task.  For the current reconnection: start is the cursor it began with,
\* target the server's latest seq at that moment, bulk_syncs the bulk syncs
\* made, applied the seqs passed to process_event, fetched_latest the server's
\* latest seq at the last page.  fresh: the next pass of the loop begins a
\* reconnection.  dropped: the websocket was closed by the error frame
\* "activity backlog dropped".  waited: the delay of the last reconnect wait
\* (0 at first and after an event was processed), wait_kind the reason of the
\* present wait.
OfflineWatcher(cursor) ==
    [pc |-> "offline", cursor |-> cursor, last_seq |-> None,
     start |-> None, target |-> 0, bulk_syncs |-> 0, applied |-> <<>>,
     fetched_latest |-> 0,
     backoff |-> WS_BACKOFF_BASE_DELAY, socket |-> "none", fresh |-> TRUE,
     dropped |-> FALSE, waited |-> 0, wait_kind |-> ""]

\* The server commits an event of the watched project.
ServerCommit ==
    /\ store[WatchedProject] < MaxLatestSeq
    /\ store' = [store EXCEPT ![WatchedProject] = @ + 1]
    /\ UNCHANGED <<config, publisher, prune, wsclient, api, conn, alloc, sup, client, watcher, published, shards, ws, authVars, gateVars>>

\* project_watcher_task, lines 390-398: no cached profile, the loop waits
\* in backoff and starts again.
WatcherAuthWait ==
    /\ watcher.pc = "offline"
    /\ watcher' = [watcher EXCEPT !.pc = "backoff", !.wait_kind = "auth"]
    /\ UNCHANGED <<config, publisher, prune, wsclient, api, conn, alloc, sup, client, store, published, shards, ws, authVars, gateVars>>

\* project_watcher_task, lines 400-410: the loop reads the persisted cursor
\* and calls catch_up_project.  It gets here when the watcher starts, after a
\* wait in backoff, and when RemoteSync::run respawns a watcher that had
\* returned an error (with a new Backoff; the same reconnection goes on).
WatcherReconnect ==
    /\ watcher.pc \in {"offline", "failed"}
    /\ watcher' =
         LET w == IF ~watcher.fresh THEN watcher
                  ELSE [watcher EXCEPT !.start = watcher.cursor,
                                       !.target = store[WatchedProject],
                                       !.bulk_syncs = 0, !.applied = <<>>,
                                       !.fresh = FALSE]
         IN [w EXCEPT !.last_seq = watcher.cursor,
                      !.backoff = IF watcher.pc = "failed" THEN WS_BACKOFF_BASE_DELAY ELSE @,
                      !.pc = IF watcher.cursor = None THEN "bulk" ELSE "fetch"]
    /\ UNCHANGED <<config, publisher, prune, wsclient, api, conn, alloc, sup, client, store, published, shards, ws, authVars, gateVars>>

\* The latest_seq of the bulk snapshot: None for a project without events.
bulk_latest_seq == IF store[WatchedProject] = 0 THEN None ELSE store[WatchedProject]

\* ActivityProcessor::bulk_sync: replaces the local tasks by the snapshot and
\* moves the cursor to its latest_seq.
WatcherBulkSync(ok) ==
    /\ watcher.pc = "bulk"
    /\ watcher' =
         IF ~ok THEN [watcher EXCEPT !.pc = "failed"]
         ELSE [watcher EXCEPT
                 !.pc = "fetch",
                 !.cursor = IF bulk_latest_seq # None THEN bulk_latest_seq ELSE @,
                 !.last_seq = bulk_latest_seq,
                 !.bulk_syncs = Min(@ + 1, MaxBulkSyncs)]
    /\ UNCHANGED <<config, publisher, prune, wsclient, api, conn, alloc, sup, client, store, published, shards, ws, authVars, gateVars>>

\* A bulk sync for every full page.
fallen_too_far_behind_full_page(last_seq, events) ==
    Len(events) >= activity_page_limit

\* catch_up_project, lines 80-86: "we've fallen too far behind".
fallen_too_far_behind(last_seq, events) ==
    /\ last_seq # None
    /\ events # <<>>
    /\ events[Len(events)] - last_seq > bulk_sync_threshold

\* One round of catch_up_project's loop (lines 73-105): a page is fetched;
\* n of its events are processed before process_event fails, all of them when
\* n is the page's length.
WatcherFetch(ok, n) ==
    LET events == fetch_since(WatchedProject, watcher.last_seq, activity_page_limit)
        seen   == [watcher EXCEPT !.fetched_latest = store[WatchedProject]]
    IN
    /\ watcher.pc = "fetch"
    /\ n <= Len(events)
    /\ watcher' =
         IF ~ok THEN [watcher EXCEPT !.pc = "failed"]
         ELSE IF events = <<>> THEN [seen EXCEPT !.pc = "caught_up"]
         ELSE IF fallen_too_far_behind(watcher.last_seq, events) THEN [seen EXCEPT !.pc = "bulk"]
         ELSE LET done == [seen EXCEPT
                             !.applied = @ \o SubSeq(events, 1, n),
                             !.cursor = IF n > 0 THEN events[n] ELSE @,
                             !.last_seq = IF n > 0 THEN events[n] ELSE @]
              IN IF n < Len(events) THEN [done EXCEPT !.pc = "failed"]
                 ELSE IF Len(events) < activity_page_limit THEN [done EXCEPT !.pc = "caught_up"]
                 ELSE done
    /\ UNCHANGED <<config, publisher, prune, wsclient, api, conn, alloc, sup, client, store, published, shards, ws, authVars, gateVars>>

\* A round in which the request succeeds and every event is processed.
WatcherFetchOk ==
    \E n \in 0..activity_page_limit :
        /\ n = Len(fetch_since(WatchedProject, watcher.last_seq, activity_page_limit))
        /\ WatcherFetch(TRUE, n)

\* catch_up_project fails with ShareError::MissingAuth (lines 413-420): the
\* loop waits in backoff and starts again.
WatcherMissingAuth ==
    /\ watcher.pc \in {"fetch", "bulk"}
    /\ watcher' = [watcher EXCEPT !.pc = "backoff", !.wait_kind = "missing_auth"]
    /\ UNCHANGED <<config, publisher, prune, wsclient, api, conn, alloc, sup, client, store, published, shards, ws, authVars, gateVars>>

\* spawn_shared_remote (lines 340-376, 429-443): run_ws_client spawns the
\* client task and returns Ok at once, so the backoff is reset whether or not
\* the connection will succeed; the loop then waits for close_rx.
WatcherSpawnWs ==
    /\ watcher.pc = "caught_up"
    /\ watcher' = [watcher EXCEPT !.pc = "websocket", !.socket = "connecting",
                                  !.backoff = WS_BACKOFF_BASE_DELAY,
                                  !.dropped = FALSE]
    /\ UNCHANGED <<config, publisher, prune, wsclient, api, conn, alloc, sup, client, store, published, shards, ws, authVars, gateVars>>

\* The websocket has closed: close_rx resolves (lines 466-476), the loop
\* closes the connection and goes to wait in backoff.
ws_closed(w, dropped) ==
    [w EXCEPT !.pc = "backoff", !.wait_kind = "reconnect", !.socket = "none",
              !.dropped = dropped, !.fresh = TRUE]

\* run_ws_client's task (utils/ws.rs 107-117, 192-194): the request is built
\* and connect_async succeeds, or the task ends and drops the handler.
WatcherWsConnect(ok) ==
    /\ watcher.pc = "websocket"
    /\ watcher.socket = "connecting"
    /\ watcher' = IF ok THEN [watcher EXCEPT !.socket = "open"]
                  ELSE ws_closed(watcher, FALSE)
    /\ UNCHANGED <<config, publisher, prune, wsclient, api, conn, alloc, sup, client, store, published, shards, ws, authVars, gateVars>>

\* SharedWsHandler::handle_message, ServerMessage::Activity: the server sends
\* the event after the cursor it was given, process_event applies it; when
\* process_event fails the client task leaves its loop and calls on_close.
WatcherWsEvent(ok) ==
    LET seq == (IF watcher.cursor = None THEN 0 ELSE watcher.cursor) + 1 IN
    /\ watcher.pc = "websocket"
    /\ watcher.socket = "open"
    /\ seq <= store[WatchedProject]
    /\ watcher' = IF ok THEN [watcher EXCEPT !.cursor = seq, !.waited = 0,
                                             !.applied = Append(@, seq)]
                  ELSE ws_closed(watcher, FALSE)
    /\ UNCHANGED <<config, publisher, prune, wsclient, api, conn, alloc, sup, client, store, published, shards, ws, authVars, gateVars>>

\* SharedWsHandler::handle_message, ServerMessage::Error (lines 312-319): the
\* server closes a session that is more than the threshold behind with
\* "activity backlog dropped"; the handler returns Err and on_close follows.
WatcherWsBacklogDropped ==
    /\ watcher.pc = "websocket"
    /\ watcher.socket = "open"
    /\ watcher.cursor # None
    /\ exceeds_bulk_limit(store[WatchedProject] - watcher.cursor, BulkSyncThreshold)
    /\ watcher' = ws_closed(watcher, TRUE)
    /\ UNCHANGED <<config, publisher, prune, wsclient, api, conn, alloc, sup, client, store, published, shards, ws, authVars, gateVars>>

\* The server or the network ends the connection.
WatcherWsClosed ==
    /\ watcher.pc = "websocket"
    /\ watcher.socket = "open"
    /\ watcher' = ws_closed(watcher, FALSE)
    /\ UNCHANGED <<config, publisher, prune, wsclient, api, conn, alloc, sup, client, store, published, shards, ws, authVars, gateVars>>

\* backoff.wait() completes (Backoff::wait), and the loop starts again.
WatcherBackoffDone ==
    /\ watcher.pc = "backoff"
    /\ watcher' = [watcher EXCEPT
                     !.pc = "offline",
                     !.backoff = backoff_next(@),
                     !.waited = IF watcher.wait_kind = "reconnect" THEN watcher.backoff ELSE @]
    /\ UNCHANGED <<config, publisher, prune, wsclient, api, conn, alloc, sup, client, store, published, shards, ws, authVars, gateVars>>

(***************************************************************************)
(* Client database and its transactions (share/processor.rs,               *)
(* db/src/models/shared_task.rs)                                           *)
(***************************************************************************)
SharedTaskIds == {1, 2}
EventSeqs == {1, 2, 3}

\* A row of shared_tasks (version 0: no row).
NoRow == [version |-> 0, project |-> 0]
Row(version, project) == [version |-> version, project |-> project]

\* The database: shared[id] the shared_tasks row, local[id] the number of
\* local tasks with shared_task_id = id, cursor the shared_activity_cursors
\* row of the watched project.
EmptyDb ==
    [shared |-> [id \in SharedTaskIds |-> NoRow],
     local |-> [id \in SharedTaskIds |-> 0],
     cursor |-> None]

\* No transaction in flight.  linking_lock is SHARED_TASK_LINKING_LOCK.count;
\* share is share_task's position, shared_id the shared task it created
\* (0: none), echoed whether the event of that creation has arrived,
\* event_project the project of the last event handled (0: none).
\* In a transaction: writes are the statements still to run, ran the number
\* that have run, buf the transaction's view, pre the database when it began.
IdleClient(db) ==
    [db |-> db, pc |-> "idle", kind |-> "", input |-> <<>>, writes |-> <<>>,
     buf |-> db, pre |-> db, result |-> "", linking_lock |-> 0, ran |-> 0,
     share |-> "idle", shared_id |-> 0, echoed |-> FALSE, event_project |-> 0]

\* SharedTaskLinkingLock::is_locked.
is_locked(count) == count > 0

\* sync_local_task_for_shared_task, lines 627-634.
create_task_if_not_exists(assignee_is_current_user, creator_is_current_user, count) ==
    assignee_is_current_user /\ ~(creator_is_current_user /\ is_locked(count))

\* The ids of S in ascending order.
RECURSIVE SortedIds(_)
SortedIds(S) ==
    IF S = {} THEN <<>>
    ELSE LET m == CHOOSE x \in S : \A y \in S : x <= y
         IN <<m>> \o SortedIds(S \ {m})

\* Task::sync_from_shared_task on the number of local tasks that mirror a
\* shared task: updates the one that does, creates one only when none does
\* and `create` is set.
sync_from_shared_task(count, create) == IF count = 0 /\ create THEN 1 ELSE count

\* Task::set_shared_task_id(None) on the task Task::find_by_shared_task_id
\* returns, if any.
unlink_found_task(count) == IF count > 0 THEN count - 1 ELSE 0

\* One statement on a database: SharedTask::upsert, sync_from_shared_task,
\* unlink_found_task, SharedTask::remove / remove_many,
\* SharedActivityCursor::upsert (last_seq = excluded.last_seq).
do_write(d, w) ==
    CASE w.op = "upsert" -> [d EXCEPT !.shared[w.id] = Row(w.version, w.project)]
      [] w.op = "sync_local" ->
            [d EXCEPT !.local[w.id] = sync_from_shared_task(@, w.create)]
      [] w.op = "unlink" -> [d EXCEPT !.local[w.id] = unlink_found_task(@)]
      [] w.op = "remove" ->
            [d EXCEPT !.shared = [id \in SharedTaskIds |-> IF id \in w.ids THEN NoRow ELSE @[id]]]
      [] w.op = "cursor" -> [d EXCEPT !.cursor = w.seq]

\* A process_event that writes nothing for a skipped payload, and only the
\* cursor otherwise.
event_writes_skip_unreadable(event, count) ==
    IF event.payload # "ok" THEN <<>>
    ELSE <<[op |-> "cursor", seq |-> event.seq]>>

\* The statements of process_event (lines 51-61, 145-224) for one event.  An
\* event without a readable payload only moves the cursor.
event_writes(event, count) ==
    (IF event.payload # "ok" THEN <<>>
     ELSE IF event.type = "task.deleted"
          THEN <<[op |-> "unlink", id |-> event.task],
                 [op |-> "remove", ids |-> {event.task}]>>
          ELSE <<[op |-> "upsert", id |-> event.task, version |-> event.version,
                  project |-> WatchedProject]>>
               \o (IF event.has_project
                   THEN <<[op |-> "sync_local", id |-> event.task,
                           create |-> create_task_if_not_exists(event.mine, event.mine, count)]>>
                   ELSE <<>>))
    \o <<[op |-> "cursor", seq |-> event.seq]>>

\* The events process_event is given, about one task; payload: a shared-task
\* payload, one that does not parse, or none; mine: created by and assigned
\* to the current user.
Events ==
    [seq : EventSeqs, type : {"task.upsert", "task.deleted"}, task : SharedTaskIds,
     version : {2}, payload : {"ok", "unreadable", "absent"}, mine : BOOLEAN,
     has_project : BOOLEAN]

\* A bulk sync that ignores deleted_task_ids.
stale_ids_local_only(d, snapshot) ==
    {id \in SharedTaskIds : d.shared[id].project = WatchedProject /\ id \notin snapshot.tasks}

\* The rows of the watched project a bulk sync finds that the snapshot does
\* not keep, and the deleted ids it lists (bulk_sync, lines 257-274).
stale_ids(d, snapshot) ==
    {id \in SharedTaskIds : d.shared[id].project = WatchedProject /\ id \notin snapshot.tasks}
    \cup (snapshot.deleted \ snapshot.tasks)

\* The statements of bulk_sync's transaction (lines 280-304) with
\* remove_stale_tasks (308-325).
bulk_writes(d, snapshot, count) ==
    LET stale == SortedIds(stale_ids(d, snapshot))
        keep  == SortedIds(snapshot.tasks)
    IN [i \in 1..Len(stale) |-> [op |-> "unlink", id |-> stale[i]]]
       \o (IF stale = <<>> THEN <<>> ELSE <<[op |-> "remove", ids |-> stale_ids(d, snapshot)]>>)
       \o [i \in 1..(2 * Len(keep)) |->
             IF i % 2 = 1
             THEN [op |-> "upsert", id |-> keep[(i + 1) \div 2], version |-> snapshot.version,
                   project |-> WatchedProject]
             ELSE [op |-> "sync_local", id |-> keep[i \div 2],
                   create |-> create_task_if_not_exists(snapshot.mine, snapshot.mine, count)]]
       \o (IF snapshot.latest_seq # None
           THEN <<[op |-> "cursor", seq |-> snapshot.latest_seq]>> ELSE <<>>)

\* The bulk snapshots of the watched project: the tasks (all at one version),
\* the deleted ids, the latest seq.
Snapshots ==
    [tasks : SUBSET SharedTaskIds, deleted : SUBSET SharedTaskIds, version : {2},
     mine : BOOLEAN, latest_seq : {None} \cup EventSeqs]

\* A database before the next operation: rows of the watched and of another
\* project, local tasks that mirror some of them.
ClientDbs ==
    {d \in [shared : [SharedTaskIds -> {NoRow} \cup {Row(1, p) : p \in ProjectIds}],
            local : [SharedTaskIds -> {0, 1}],
            cursor : {None, 1}] :
        \A id \in SharedTaskIds : d.local[id] = 1 => d.shared[id] # NoRow}

\* process_event, line 52: the transaction begins (or pool.begin fails).
ClientBeginEvent(event, ok) ==
    /\ client.pc = "idle"
    /\ client' =
         IF ~ok THEN [client EXCEPT !.pc = "done", !.kind = "event", !.input = event,
                                    !.event_project = WatchedProject,
                                    !.pre = client.db, !.buf = client.db,
                                    !.writes = <<>>, !.result = "Err"]
         ELSE [client EXCEPT !.pc = "tx", !.kind = "event", !.input = event,
                             !.event_project = WatchedProject,
                             !.pre = client.db, !.buf = client.db,
                             !.writes = event_writes(event, client.linking_lock),
                             !.result = ""]
    /\ UNCHANGED <<config, publisher, prune, wsclient, api, conn, alloc, sup, watcher, store, published, shards, ws, authVars, gateVars>>

\* SharedWsHandler::handle_message, lines 298-305: an activity frame is passed
\* to process_event only when it is of the handler's project.
handle_message_accepts(event_project, remote_project_id) ==
    event_project = remote_project_id

\* An activity frame of `project` arrives on the watcher's websocket: it is
\* processed, or ignored with Ok.
ClientWsEvent(event, project, ok) ==
    /\ client.pc = "idle"
    /\ IF handle_message_accepts(project, WatchedProject)
       THEN ClientBeginEvent(event, ok)
       ELSE /\ client' = [client EXCEPT !.pc = "done", !.kind = "ignored", !.input = event,
                                        !.event_project = project,
                                        !.pre = client.db, !.buf = client.db,
                                        !.writes = <<>>, !.result = "Ok"]
            /\ UNCHANGED <<config, publisher, prune, wsclient, api, conn, alloc, sup, watcher, store, published, shards, ws, authVars, gateVars>>

\* bulk_sync, lines 228-280: the snapshot is fetched, the stale rows are
\* listed from the pool, the transaction begins; any of these may fail.  A
\* snapshot without latest_seq is one of a project without events, which the
\* client holds no cursor for.
ClientBeginBulk(snapshot, ok) ==
    /\ client.pc = "idle"
    /\ snapshot.latest_seq = None => client.db.cursor = None /\ snapshot.tasks = {}
    /\ client' =
         IF ~ok THEN [client EXCEPT !.pc = "done", !.kind = "bulk", !.input = snapshot,
                                    !.pre = client.db, !.buf = client.db,
                                    !.writes = <<>>, !.result = "Err"]
         ELSE [client EXCEPT !.pc = "tx", !.kind = "bulk", !.input = snapshot,
                             !.pre = client.db, !.buf = client.db,
                             !.writes = bulk_writes(client.db, snapshot, client.linking_lock),
                             !.result = ""]
    /\ UNCHANGED <<config, publisher, prune, wsclient, api, conn, alloc, sup, watcher, store, published, shards, ws, authVars, gateVars>>

\* A statement that takes effect at once, outside the transaction.
tx_write_autocommit(c, w) ==
    [c EXCEPT !.db = do_write(c.db, w), !.buf = do_write(c.buf, w), !.writes = Tail(@),
              !.ran = @ + 1]

\* A statement run on the transaction (executor tx.as_mut()): only the
\* transaction sees it.
tx_write(c, w) ==
    [c EXCEPT !.buf = do_write(c.buf, w), !.writes = Tail(@), !.ran = @ + 1]

\* The next statement runs, or fails: `?` returns the error and the dropped
\* Transaction rolls back.
ClientTxWrite(ok) ==
    /\ client.pc = "tx"
    /\ client.writes # <<>>
    /\ client' =
         IF ok THEN tx_write(client, Head(client.writes))
         ELSE [client EXCEPT !.pc = "done", !.result = "Err", !.buf = client.db,
                             !.writes = <<>>]
    /\ UNCHANGED <<config, publisher, prune, wsclient, api, conn, alloc, sup, watcher, store, published, shards, ws, authVars, gateVars>>

\* tx.commit(): the transaction's view becomes the database, or the commit
\* fails and nothing does.
ClientTxCommit(ok) ==
    /\ client.pc = "tx"
    /\ client.writes = <<>>
    /\ client' =
         IF ok THEN [client EXCEPT !.pc = "done", !.result = "Ok", !.db = client.buf]
         ELSE [client EXCEPT !.pc = "done", !.result = "Err", !.buf = client.db]
    /\ UNCHANGED <<config, publisher, prune, wsclient, api, conn, alloc, sup, watcher, store, published, shards, ws, authVars, gateVars>>

(***************************************************************************)
(* Remote sync supervisor and its watcher tasks (services/share.rs,        *)
(* RemoteSync, project_watcher_task), for the watched project              *)
(***************************************************************************)
\* Events of the watched project on the server in the supervisor's behaviours.
MaxSupSeq == 3

\* The watcher tasks the supervisor spawns for the project in one behaviour,
\* in this order.
TaskIds == {1, 2}

\* A watcher task that has not been spawned.  signaled: its shutdown one-shot
\* has fired or its sender was dropped; signaled_at: where the task was
\* then; next: the seq it applies next;
\* bulk_due: catch_up_project was entered without a cursor.
UnbornTask ==
    [pc |-> "unborn", signaled |-> FALSE, signaled_at |-> "", next |-> 0,
     bulk_due |-> FALSE, result |-> "", socket |-> "none"]

\* RemoteSync::run before its first reconcile.  registered: the task in the
\* watchers map under the watched project (0: no entry); events: the
\* ProjectWatcherEvent channel; cursor: shared_activity_cursors.last_seq of
\* the project.
IdleSup ==
    [linked |-> FALSE, pc |-> "running", result |-> "",
     registered |-> 0, events |-> <<>>, cursor |-> None,
     tasks |-> [t \in TaskIds |-> UnbornTask]]

\* `let _ = watcher.shutdown.send(())`, or the sender dropped with its
\* ProjectWatcher: the task's shutdown_rx becomes ready.
signal(task) ==
    IF task.signaled THEN task
    ELSE [task EXCEPT !.signaled = TRUE, !.signaled_at = task.pc]

\* The watchers map loses its entry of the project and the entry's task is
\* signaled.
unregister_and_signal(s) ==
    IF s.registered = 0 THEN s
    ELSE [s EXCEPT !.registered = 0, !.tasks[s.registered] = signal(@)]

\* project_watcher_task returns `result`; the spawned wrapper sends
\* ProjectWatcherEvent (spawn_project_watcher, lines 261-274), which is lost
\* when run has returned.
task_exit(s, t, result) ==
    [s EXCEPT !.tasks[t] = [@ EXCEPT !.pc = "exited", !.result = result],
              !.events = IF s.pc = "running" THEN Append(@, t) ELSE @]

\* A select that never takes its shutdown branch.
select_never_shutdown(task) == FALSE

\* `_ = &mut shutdown_rx` in a tokio::select!: ready once the one-shot has
\* fired or its sender is gone.
select_shutdown(task) == task.signaled

\* The tasks not spawned yet.
unborn(s) == {t \in TaskIds : s.tasks[t].pc = "unborn"}

\* The user links the watched project to a remote project, or unlinks it.
SupSetLinked(linked) ==
    /\ sup.linked # linked
    /\ sup' = [sup EXCEPT !.linked = linked]
    /\ UNCHANGED <<config, publisher, prune, wsclient, api, conn, alloc, client, watcher, store, published, shards, ws, authVars, gateVars>>

\* reconcile_watchers (lines 198-235), called at the start of run and on
\* every refresh tick.  linked_remote_projects fails: run returns the error
\* and drops the map.  Otherwise a watcher is spawned for a linked project
\* without entry, and the entry of an unlinked project is removed and its
\* task signaled; the join is awaited by a detached task.
SupReconcile(ok) ==
    /\ sup.pc = "running"
    /\ (ok /\ sup.linked /\ sup.registered = 0) => unborn(sup) # {}
    /\ sup' =
         IF ~ok THEN [unregister_and_signal(sup) EXCEPT !.pc = "returned", !.result = "Err"]
         ELSE IF sup.linked /\ sup.registered = 0
              THEN LET t == CHOOSE t \in unborn(sup) : \A u \in unborn(sup) : t <= u
                   IN [sup EXCEPT !.registered = t, !.tasks[t].pc = "loop"]
         ELSE IF ~sup.linked THEN unregister_and_signal(sup)
         ELSE sup
    /\ UNCHANGED <<config, publisher, prune, wsclient, api, conn, alloc, client, watcher, store, published, shards, ws, authVars, gateVars>>

\* run, lines 180-190: a ProjectWatcherEvent arrives and the entry of its
\* project is removed, whichever task holds it.
SupWatcherEvent ==
    /\ sup.pc = "running"
    /\ sup.events # <<>>
    /\ sup' = [unregister_and_signal(sup) EXCEPT !.events = Tail(@)]
    /\ UNCHANGED <<config, publisher, prune, wsclient, api, conn, alloc, client, watcher, store, published, shards, ws, authVars, gateVars>>

\* RemoteSyncHandle::request_shutdown fires the supervisor's one-shot and
\* run takes the branch (lines 166-179): every watcher is signaled, a
\* detached task is spawned to await each join, and run returns Ok.
SupShutdown ==
    /\ sup.pc = "running"
    /\ sup' = [unregister_and_signal(sup) EXCEPT !.pc = "returned", !.result = "Ok"]
    /\ UNCHANGED <<config, publisher, prune, wsclient, api, conn, alloc, client, watcher, store, published, shards, ws, authVars, gateVars>>

\* project_watcher_task, lines 390-402: without a cached profile the task
\* waits; otherwise it reads the persisted cursor (`?` returns the error).
TaskBegin(t, has_profile, ok) ==
    /\ sup.tasks[t].pc = "loop"
    /\ sup' =
         IF ~has_profile THEN [sup EXCEPT !.tasks[t].pc = "auth_wait"]
         ELSE IF ~ok THEN task_exit(sup, t, "Err")
         ELSE [sup EXCEPT !.tasks[t].pc = "catch_up",
                          !.tasks[t].bulk_due = (sup.cursor = None),
                          !.tasks[t].next = IF sup.cursor = None THEN 0 ELSE sup.cursor + 1]
    /\ UNCHANGED <<config, publisher, prune, wsclient, api, conn, alloc, client, watcher, store, published, shards, ws, authVars, gateVars>>

\* select { shutdown_rx => return Ok(()), backoff.wait() => {} } (lines
\* 393-396, 414-417, 441-456, 480-486): the timer is not ready when the
\* select is entered, so a ready shutdown is taken.
TaskSelectWait(t) ==
    /\ sup.tasks[t].pc \in {"auth_wait", "backoff_wait"}
    /\ sup' = IF select_shutdown(sup.tasks[t]) THEN task_exit(sup, t, "Ok")
              ELSE [sup EXCEPT !.tasks[t].pc = "loop"]
    /\ UNCHANGED <<config, publisher, prune, wsclient, api, conn, alloc, client, watcher, store, published, shards, ws, authVars, gateVars>>

\* catch_up_project without cursor: bulk_sync writes cursor = latest_seq when
\* the project has events; shutdown_rx is not polled meanwhile.
TaskBulkSync(t, ok) ==
    /\ sup.tasks[t].pc = "catch_up"
    /\ sup.tasks[t].bulk_due
    /\ sup' =
         IF ~ok THEN task_exit(sup, t, "Err")
         ELSE LET latest == store[WatchedProject] IN
              [sup EXCEPT !.cursor = IF latest > 0 THEN latest ELSE @,
                          !.tasks[t].bulk_due = FALSE,
                          !.tasks[t].next = latest + 1]
    /\ UNCHANGED <<config, publisher, prune, wsclient, api, conn, alloc, client, watcher, store, published, shards, ws, authVars, gateVars>>

\* process_event on the task's next event, from a fetched page or from the
\* websocket: SharedActivityCursor::upsert sets last_seq = event.seq.
TaskApply(t) ==
    /\ \/ sup.tasks[t].pc = "catch_up" /\ ~sup.tasks[t].bulk_due
       \/ sup.tasks[t].pc = "connected"
    /\ sup.tasks[t].next \in 1..store[WatchedProject]
    /\ sup' = [sup EXCEPT !.cursor = sup.tasks[t].next,
                          !.tasks[t].next = @ + 1]
    /\ UNCHANGED <<config, publisher, prune, wsclient, api, conn, alloc, client, watcher, store, published, shards, ws, authVars, gateVars>>

\* catch_up_project returns (lines 404-420): Ok and the websocket is spawned,
\* MissingAuth and the task waits, any other error and the task returns it.
TaskCatchUpEnd(t, outcome) ==
    /\ sup.tasks[t].pc = "catch_up"
    /\ outcome = "ok" => ~sup.tasks[t].bulk_due /\ sup.tasks[t].next > store[WatchedProject]
    /\ sup' =
         CASE outcome = "ok" ->
                [sup EXCEPT !.tasks[t].pc = "connected", !.tasks[t].socket = "open"]
           [] outcome = "missing_auth" -> [sup EXCEPT !.tasks[t].pc = "backoff_wait"]
           [] outcome = "err" -> task_exit(sup, t, "Err")
    /\ UNCHANGED <<config, publisher, prune, wsclient, api, conn, alloc, client, watcher, store, published, shards, ws, authVars, gateVars>>

\* Lines 459-466: shutdown while connected closes the websocket and returns Ok.
TaskWsShutdown(t) ==
    /\ sup.tasks[t].pc = "connected"
    /\ select_shutdown(sup.tasks[t])
    /\ sup' = task_exit([sup EXCEPT !.tasks[t].socket = "closed"], t, "Ok")
    /\ UNCHANGED <<config, publisher, prune, wsclient, api, conn, alloc, client, watcher, store, published, shards, ws, authVars, gateVars>>

\* Lines 467-487: close_rx resolves, the connection is closed and the task
\* waits before reconnecting.
TaskWsClosed(t) ==
    /\ sup.tasks[t].pc = "connected"
    /\ sup' = [sup EXCEPT !.tasks[t].pc = "backoff_wait", !.tasks[t].socket = "closed"]
    /\ UNCHANGED <<config, publisher, prune, wsclient, api, conn, alloc, client, watcher, store, published, shards, ws, authVars, gateVars>>

\* One step of watcher task t.
TaskStep(t) ==
    \/ \E has_profile \in BOOLEAN, ok \in BOOLEAN : TaskBegin(t, has_profile, ok)
    \/ TaskSelectWait(t)
    \/ \E ok \in BOOLEAN : TaskBulkSync(t, ok)
    \/ TaskApply(t)
    \/ \E outcome \in {"ok", "missing_auth", "err"} : TaskCatchUpEnd(t, outcome)
    \/ TaskWsShutdown(t)
    \/ TaskWsClosed(t)

(***************************************************************************)
(* Sequence allocator: concurrent inserts into the activity table          *)
(***************************************************************************)
WriterIds == {1, 2}

\* Events one project is given by the writers of one behaviour.
MaxAllocSeq == 3

\* No insert in flight.  lock[p]: the writer whose transaction holds the row
\* lock of p's counter (0: none); committed[p]: the seqs of p's committed
\* rows in commit order; aborted[p]: an insert into p was rolled back.
IdleAlloc ==
    [lock |-> [p \in ProjectIds |-> 0],
     writers |-> [w \in WriterIds |-> [pc |-> "idle", project |-> 0, seq |-> 0]],
     committed |-> [p \in ProjectIds |-> <<>>],
     aborted |-> [p \in ProjectIds |-> FALSE]]

\* A counter row nobody's transaction ever locks.
row_never_locked(holder) == FALSE

\* The counter row of a project is locked by another transaction.
row_locked(holder) == holder # 0

\* seq = max(seq for this project) + 1.
allocate_seq(latest) == latest + 1

\* A writer's transaction begins and asks for the counter row of p.
WriterBegin(w, p) ==
    /\ alloc.writers[w].pc = "idle"
    /\ store[p] < MaxAllocSeq
    /\ alloc' = [alloc EXCEPT !.writers[w] = [pc |-> "waiting", project |-> p, seq |-> 0]]
    /\ UNCHANGED <<config, publisher, prune, wsclient, api, conn, sup, client, watcher, store, published, shards, ws, authVars, gateVars>>

\* The row lock is granted; the transaction reads the latest seq and
\* inserts its row with the next one.
WriterInsert(w) ==
    LET p == alloc.writers[w].project IN
    /\ alloc.writers[w].pc = "waiting"
    /\ ~row_locked(alloc.lock[p])
    /\ alloc' = [alloc EXCEPT !.lock[p] = w, !.writers[w].pc = "inserted",
                              !.writers[w].seq = allocate_seq(store[p])]
    /\ UNCHANGED <<config, publisher, prune, wsclient, api, conn, sup, client, watcher, store, published, shards, ws, authVars, gateVars>>

\* The transaction commits: the row is in the activity table and the lock is
\* released.
WriterCommit(w) ==
    LET p == alloc.writers[w].project IN
    /\ alloc.writers[w].pc = "inserted"
    /\ alloc' = [alloc EXCEPT !.lock[p] = IF @ = w THEN 0 ELSE @,
                              !.writers[w] = [pc |-> "idle", project |-> 0, seq |-> 0],
                              !.committed[p] = Append(@, alloc.writers[w].seq)]
    /\ store' = [store EXCEPT ![p] = Max(@, alloc.writers[w].seq)]
    /\ UNCHANGED <<config, publisher, prune, wsclient, api, conn, sup, client, watcher, published, shards, ws, authVars, gateVars>>

\* The transaction rolls back: its row and its counter update are gone and
\* the lock is released.
WriterAbort(w) ==
    LET p == alloc.writers[w].project IN
    /\ alloc.writers[w].pc = "inserted"
    /\ alloc' = [alloc EXCEPT !.lock[p] = IF @ = w THEN 0 ELSE @,
                              !.writers[w] = [pc |-> "idle", project |-> 0, seq |-> 0],
                              !.aborted[p] = TRUE]
    /\ UNCHANGED <<config, publisher, prune, wsclient, api, conn, sup, client, watcher, store, published, shards, ws, authVars, gateVars>>

(***************************************************************************)
(* One websocket connection's WsAuthState and inbound frames               *)
(* (crates/remote/src/ws/session.rs, crates/remote/src/auth/jwt.rs)        *)
(***************************************************************************)
\* WS_TOKEN_EXPIRY_GRACE (120 s in utils/src/ws.rs:17), in clock ticks.
WsTokenExpiryGrace == 1
\* The clock of the connection runs from 0 to MaxConnNow.
MaxConnNow == 2

\* The connection belongs to user 1, whose auth sessions are 1 and 2.
ConnUserId == session_user[1]
\* Seqs of the activity frames a connection sends.
ConnSeqs == {1}

\* Access tokens a client can put into an AuthToken frame: text that is no
\* signed access token, or a token the server signed for a session of its
\* user (jwt.rs 91-101: sub, session_id, exp).
AccessTokens ==
    {[kind |-> "garbage", user_id |-> 0, session_id |-> 0, expires_at |-> 0]}
    \cup {[kind |-> "jwt", user_id |-> session_user[s], session_id |-> s, expires_at |-> e] :
             s \in AuthSessionIds, e \in 0..MaxConnNow}

\* Option<String>::None for new_access_token.
NoAccessToken == [kind |-> "none", user_id |-> 0, session_id |-> 0, expires_at |-> 0]

\* Inbound websocket messages as handle tells them apart (lines 175-199).
InboundFrames ==
    {[type |-> t, token |-> NoAccessToken] :
        t \in {"ack", "invalid_text", "non_text", "close", "receive_error", "end"}}
    \cup {[type |-> "auth_token", token |-> tok] : tok \in AccessTokens}

\* JwtService::decode_access_token_with_leeway (jwt.rs 140-166): the token
\* must be a signed access token and, validate_exp being set, its exp must
\* not lie more than the leeway behind the clock.
decode_access_token_with_leeway(token, leeway, at) ==
    token.kind = "jwt" /\ token.expires_at >= at - leeway

\* WsAuthState::validate_token_expiry (lines 333-338).
validate_token_expiry(auth_state, at) ==
    IF auth_state.token_expires_at + WsTokenExpiryGrace > at THEN "Ok" ELSE "Expired"

\* WsAuthState::validate_session (lines 341-353): the row of the tracked
\* session is read; a failed read is Session, a revoked row Revoked.
validate_session(auth_state, lookup_ok, revoked) ==
    IF ~lookup_ok THEN "Session"
    ELSE IF auth_state.session_id \in revoked THEN "Revoked" ELSE "Ok"

\* WsAuthState::validate_membership (lines 355-372).
validate_membership(member) == IF member THEN "Ok" ELSE "MembershipRevoked"

\* An apply_identity that validates the token's session but goes on tracking
\* the session the connection had.
apply_identity_keeps_session(auth_state, user_id, session_id, lookup_ok, revoked) ==
    IF user_id # auth_state.expected_user_id
    THEN [auth_state |-> auth_state, result |-> "UserMismatch"]
    ELSE [auth_state |-> auth_state,
          result |-> validate_session([auth_state EXCEPT !.session_id = session_id],
                                      lookup_ok, revoked)]

\* WsAuthState::apply_identity (lines 318-331): the session of the token is
\* assigned before it is validated.
apply_identity(auth_state, user_id, session_id, lookup_ok, revoked) ==
    IF user_id # auth_state.expected_user_id
    THEN [auth_state |-> auth_state, result |-> "UserMismatch"]
    ELSE LET adopted == [auth_state EXCEPT !.session_id = session_id]
         IN [auth_state |-> adopted,
             result |-> validate_session(adopted, lookup_ok, revoked)]

\* WsAuthState::verify (lines 302-316).  env: the clock, the revoked auth
\* sessions, the user's access to the project, and whether the first and the
\* second read of the session row succeed.  The result is the state verify
\* leaves and the AuthVerifyError it returns ("Ok" for Ok(())).
verify_auth_state(auth_state, env) ==
    LET token == auth_state.new_access_token
        taken == [auth_state EXCEPT !.new_access_token = NoAccessToken]
        identity == apply_identity(taken, token.user_id, token.session_id,
                                   env.lookup1_ok, env.revoked)
        fresh ==
            IF token = NoAccessToken THEN [auth_state |-> taken, result |-> "Ok"]
            ELSE IF ~decode_access_token_with_leeway(token, WsTokenExpiryGrace, env.now)
            THEN [auth_state |-> taken, result |-> "Decode"]
            ELSE IF identity.result # "Ok" THEN identity
            ELSE [auth_state |-> [identity.auth_state EXCEPT
                                     !.token_expires_at = token.expires_at],
                  result |-> "Ok"]
        rest ==
            IF validate_token_expiry(fresh.auth_state, env.now) # "Ok" THEN "Expired"
            ELSE IF validate_session(fresh.auth_state, env.lookup2_ok, env.revoked) # "Ok"
            THEN validate_session(fresh.auth_state, env.lookup2_ok, env.revoked)
            ELSE validate_membership(env.member)
    IN  IF fresh.result # "Ok" THEN fresh
        ELSE [auth_state |-> fresh.auth_state, result |-> rest]

\* handle, lines 206-213: the message of the error frame for an
\* AuthVerifyError.
auth_error_message(error) ==
    CASE error = "Revoked" -> "authorization revoked"
      [] error = "MembershipRevoked" -> "project access revoked"
      [] error = "Expired" -> "authorization expired"
      [] error \in {"UserMismatch", "Decode", "Session"} -> "authorization error"

\* A store_token that keeps a token already buffered.
store_token_keeps_first(auth_state, token) ==
    IF auth_state.new_access_token = NoAccessToken
    THEN [auth_state EXCEPT !.new_access_token = token]
    ELSE auth_state

\* WsAuthState::store_token (lines 298-300).
store_token(auth_state, token) == [auth_state EXCEPT !.new_access_token = token]

\* The connection before it is opened; every specification but the one of
\* the connection leaves it so.
IdleConn ==
    [pc |-> "closed",
     auth_state |-> [session_id |-> 1, expected_user_id |-> ConnUserId,
                     token_expires_at |-> 0, new_access_token |-> NoAccessToken],
     last_sent_seq |-> None, subscribed |-> FALSE, frames |-> <<>>,
     now |-> 0, revoked |-> {}, member |-> TRUE,
     opened_session |-> 1, last |-> "", error |-> ""]

\* handle, lines 66-81 after upgrade admitted the request: WsAuthState::new
\* with the request's session, user and token expiry, no token buffered, and
\* the broker subscription.  The session is not revoked, the token not
\* expired and the user has access, or the request would not have come here.
OpenConn(session_id, token_expires_at, cursor) ==
    [IdleConn EXCEPT
        !.pc = "live",
        !.auth_state = [session_id |-> session_id, expected_user_id |-> ConnUserId,
                        token_expires_at |-> token_expires_at,
                        new_access_token |-> NoAccessToken],
        !.last_sent_seq = cursor, !.subscribed = TRUE,
        !.opened_session = session_id, !.last = "open"]

\* handle, lines 101-173: an activity event of the subscription is sent and
\* last_sent_seq follows it.
ConnActivity ==
    LET next == IF conn.last_sent_seq = None THEN 1 ELSE conn.last_sent_seq + 1 IN
    /\ conn.pc = "live"
    /\ next \in ConnSeqs
    /\ conn' = [conn EXCEPT !.last_sent_seq = next, !.last = "activity",
                            !.frames = Append(@, [type |-> "activity", message |-> ""])]
    /\ UNCHANGED <<config, publisher, prune, wsclient, api, alloc, sup, client, watcher, store, published, shards, ws, authVars, gateVars>>

\* handle, lines 175-199: one inbound message.  Ack, text that is no
\* ClientMessage and non-text messages are dropped; AuthToken is handed to
\* store_token; Close, a receive error and the end of the stream break the
\* loop, which drops the subscription.  `last` names the step taken last;
\* "auth_token_again": a token was buffered already and this frame put
\* another one in its place.
ConnInbound(frame) ==
    /\ conn.pc = "live"
    /\ conn' =
         CASE frame.type = "auth_token" ->
                [conn EXCEPT !.auth_state = store_token(@, frame.token),
                             !.last = IF conn.auth_state.new_access_token
                                          \notin {NoAccessToken, frame.token}
                                      THEN "auth_token_again" ELSE "auth_token"]
           [] frame.type \in {"close", "receive_error", "end"} ->
                [conn EXCEPT !.pc = "terminated", !.subscribed = FALSE,
                             !.last = frame.type]
           [] OTHER -> [conn EXCEPT !.last = "dropped_frame"]
    /\ UNCHANGED <<config, publisher, prune, wsclient, api, alloc, sup, client, watcher, store, published, shards, ws, authVars, gateVars>>

\* handle, lines 201-219: the auth tick.  verify runs; on an error the error
\* frame and the Close frame are sent, the results of both sends are
\* discarded (sent_ok: they reach the socket), and the loop breaks.
\* last = "tick_opened_revoked": the session the connection was opened with
\* was revoked when this tick ran.
ConnAuthTick(lookup1_ok, lookup2_ok, sent_ok) ==
    LET env == [now |-> conn.now, revoked |-> conn.revoked, member |-> conn.member,
                lookup1_ok |-> lookup1_ok, lookup2_ok |-> lookup2_ok]
        verified == verify_auth_state(conn.auth_state, env)
        message == auth_error_message(verified.result)
        ticked == IF conn.opened_session \in conn.revoked
                  THEN "tick_opened_revoked" ELSE "tick"
    IN
    /\ conn.pc = "live"
    /\ conn' =
         IF verified.result = "Ok"
         THEN [conn EXCEPT !.auth_state = verified.auth_state, !.last = ticked]
         ELSE [conn EXCEPT !.auth_state = verified.auth_state, !.last = ticked,
                           !.pc = "terminated", !.subscribed = FALSE,
                           !.error = message,
                           !.frames = IF sent_ok
                                      THEN @ \o <<[type |-> "error", message |-> message],
                                                  [type |-> "close", message |-> ""]>>
                                      ELSE @]
    /\ UNCHANGED <<config, publisher, prune, wsclient, api, alloc, sup, client, watcher, store, published, shards, ws, authVars, gateVars>>

\* Around the connection: the clock advances; an auth session of the user is
\* revoked; the user loses access to the project.
ConnClock ==
    /\ conn.pc = "live"
    /\ conn.now < MaxConnNow
    /\ conn' = [conn EXCEPT !.now = @ + 1]
    /\ UNCHANGED <<config, publisher, prune, wsclient, api, alloc, sup, client, watcher, store, published, shards, ws, authVars, gateVars>>

ConnRevoke(session_id) ==
    /\ conn.pc = "live"
    /\ session_id \notin conn.revoked
    /\ conn' = [conn EXCEPT !.revoked = @ \cup {session_id}]
    /\ UNCHANGED <<config, publisher, prune, wsclient, api, alloc, sup, client, watcher, store, published, shards, ws, authVars, gateVars>>

ConnLoseAccess ==
    /\ conn.pc = "live"
    /\ conn.member
    /\ conn' = [conn EXCEPT !.member = FALSE]
    /\ UNCHANGED <<config, publisher, prune, wsclient, api, alloc, sup, client, watcher, store, published, shards, ws, authVars, gateVars>>

(***************************************************************************)
(* The client's remote API calls (crates/services/src/services/            *)
(* remote_client.rs, RemoteClient::send)                                   *)
(***************************************************************************)
\* ExponentialBuilder::with_max_times(3), remote_client.rs:228: the backoff
\* hands out this many delays.
RETRY_MAX_TIMES == 3

\* What one attempt meets: the request fails in transport, times out, or a
\* response with a status arrives.
AttemptOutcomes ==
    {[kind |-> "transport", status |-> 0], [kind |-> "timeout", status |-> 0]}
    \cup {[kind |-> "response", status |-> s] : s \in {200, 401, 403, 404, 409, 500, 503}}

\* The closure of send, lines 202-221: the result of one attempt.
attempt_result(outcome) ==
    CASE outcome.kind = "transport" -> [error |-> "Transport", status |-> 0]
      [] outcome.kind = "timeout" -> [error |-> "Timeout", status |-> 0]
      [] outcome.status \in 200..299 -> [error |-> "", status |-> outcome.status]
      [] outcome.status \in {401, 403} -> [error |-> "Auth", status |-> 0]
      [] OTHER -> [error |-> "Http", status |-> outcome.status]

\* RemoteClientError::should_retry, lines 55-64.
should_retry(result) ==
    \/ result.error \in {"Transport", "Timeout"}
    \/ result.error = "Http" /\ result.status \in 500..599

\* backon's ExponentialBackoff::next as built in lines 224-230: a delay as
\* long as fewer than max_times delays were handed out, then None.
backoff_has_next(handed_out) == handed_out < RETRY_MAX_TIMES

\* No call in flight.  attempts: the results of the attempts made, in order;
\* delays: the delays the backoff handed out.
IdleApi == [pc |-> "idle", attempts |-> <<>>, delays |-> 0, result |-> [error |-> "", status |-> 0]]

\* send, lines 186-200: the url is built and the first attempt starts.
ApiCall ==
    /\ api.pc = "idle"
    /\ api' = [IdleApi EXCEPT !.pc = "attempting"]
    /\ UNCHANGED <<config, publisher, prune, wsclient, conn, alloc, sup, client, watcher, store, published, shards, ws, authVars, gateVars>>

\* One attempt and backon's Retry around it (lines 202-239): Ok is returned;
\* an error that should not be retried is returned; an error that should be
\* is returned only when the backoff has no delay left, otherwise the call
\* sleeps for the delay.
ApiAttempt(outcome) ==
    LET result == attempt_result(outcome)
        made == Append(api.attempts, result)
    IN
    /\ api.pc = "attempting"
    /\ api' =
         IF result.error # "" /\ should_retry(result) /\ backoff_has_next(api.delays)
         THEN [api EXCEPT !.pc = "sleeping", !.attempts = made, !.delays = @ + 1]
         ELSE [api EXCEPT !.pc = "done", !.attempts = made, !.result = result]
    /\ UNCHANGED <<config, publisher, prune, wsclient, conn, alloc, sup, client, watcher, store, published, shards, ws, authVars, gateVars>>

\* The sleep of the delay ends and the closure runs again.
ApiRetry ==
    /\ api.pc = "sleeping"
    /\ api' = [api EXCEPT !.pc = "attempting"]
    /\ UNCHANGED <<config, publisher, prune, wsclient, conn, alloc, sup, client, watcher, store, published, shards, ws, authVars, gateVars>>

(***************************************************************************)
(* The client's websocket task and its close signal                        *)
(* (crates/utils/src/ws.rs run_ws_client, services/share.rs)               *)
(***************************************************************************)
\* Messages the task handles or sends before the model stops counting them.
MaxWsMessages == 2

\* What ends the loop of the task (ws.rs 140-181).
WsLoopBreaks ==
    {"send_failed", "msg_rx_closed", "handler_error", "stream_error", "stream_ended",
     "cancel"}

\* A handler that is never dropped: its close_tx stays where it is.
handler_leaked(close_tx) == close_tx

\* The handler is dropped with the future of the task: a close_tx it still
\* holds is dropped with it, which close_rx sees as RecvError.
handler_dropped(close_tx) == IF close_tx = "held" THEN "dropped" ELSE close_tx

\* SharedWsHandler::on_close (share.rs 329-335): close_tx is taken and ()
\* sent.
on_close(close_tx) == IF close_tx = "held" THEN "sent" ELSE close_tx

\* close_rx resolves with Ok(()) once () was sent and with Err once the
\* sender was dropped.
close_rx_resolved(close_tx) == close_tx \in {"sent", "dropped"}

\* Before spawn_shared_remote.  task: where the spawned task of
\* run_ws_client is; ended_by: what ended it; handled, sent: messages passed
\* to the handler and written to the sink; cancel: WsClient::close was
\* called; shutdown: the watcher's shutdown signal fired; watcher: where
\* project_watcher_task is.
IdleWsClient ==
    [task |-> "none", ended_by |-> "", close_tx |-> "none", handled |-> 0, sent |-> 0,
     cancel |-> FALSE, shutdown |-> FALSE, watcher |-> "spawning", left_by |-> ""]

\* spawn_shared_remote (share.rs 337-379) and run_ws_client (ws.rs 96-103,
\* 196-201): the handler gets close_tx, the task is spawned and the WsClient
\* returned at once; the watcher goes to its select (share.rs 459).
WsClientSpawn ==
    /\ wsclient.task = "none"
    /\ wsclient' = [wsclient EXCEPT !.task = "build_request", !.close_tx = "held",
                                    !.watcher = "select"]
    /\ UNCHANGED <<config, publisher, prune, api, conn, alloc, sup, client, watcher, store, published, shards, ws, authVars, gateVars>>

\* ws.rs 104-111: build_request; on an error (no token for the header) the
\* task returns.
WsTaskBuildRequest(ok) ==
    /\ wsclient.task = "build_request"
    /\ wsclient' =
         IF ok THEN [wsclient EXCEPT !.task = "connect"]
         ELSE [wsclient EXCEPT !.task = "ended", !.ended_by = "build_request",
                               !.close_tx = handler_dropped(@)]
    /\ UNCHANGED <<config, publisher, prune, api, conn, alloc, sup, client, watcher, store, published, shards, ws, authVars, gateVars>>

\* ws.rs 113-116, 188-190: connect_async; on an error the task ends.
WsTaskConnect(ok) ==
    /\ wsclient.task = "connect"
    /\ wsclient' =
         IF ok THEN [wsclient EXCEPT !.task = "loop"]
         ELSE [wsclient EXCEPT !.task = "ended", !.ended_by = "connect",
                               !.close_tx = handler_dropped(@)]
    /\ UNCHANGED <<config, publisher, prune, api, conn, alloc, sup, client, watcher, store, published, shards, ws, authVars, gateVars>>

\* ws.rs 140-181, one turn of the loop that goes on: a message is written to
\* the sink, or an incoming message is handled without an error.
WsTaskTurn(branch) ==
    /\ wsclient.task = "loop"
    /\ \/ branch = "send" /\ wsclient.sent < MaxWsMessages
          /\ wsclient' = [wsclient EXCEPT !.sent = @ + 1]
       \/ branch = "incoming" /\ wsclient.handled < MaxWsMessages
          /\ wsclient' = [wsclient EXCEPT !.handled = @ + 1]
    /\ UNCHANGED <<config, publisher, prune, api, conn, alloc, sup, client, watcher, store, published, shards, ws, authVars, gateVars>>

\* ws.rs 140-181, a turn that breaks the loop; the cancel branch is ready
\* once WsClient::close was called.
WsTaskBreak(by) ==
    /\ wsclient.task = "loop"
    /\ by = "cancel" => wsclient.cancel
    /\ wsclient' = [wsclient EXCEPT !.task = "on_close", !.ended_by = by]
    /\ UNCHANGED <<config, publisher, prune, api, conn, alloc, sup, client, watcher, store, published, shards, ws, authVars, gateVars>>

\* ws.rs 183-185: handler.on_close().
WsTaskOnClose ==
    /\ wsclient.task = "on_close"
    /\ wsclient' = [wsclient EXCEPT !.task = "sink_close", !.close_tx = on_close(@)]
    /\ UNCHANGED <<config, publisher, prune, api, conn, alloc, sup, client, watcher, store, published, shards, ws, authVars, gateVars>>

\* ws.rs 187-195: the sink is closed (an error is logged), the ping task
\* aborted, and the task ends.
WsTaskEnd ==
    /\ wsclient.task = "sink_close"
    /\ wsclient' = [wsclient EXCEPT !.task = "ended", !.close_tx = handler_dropped(@)]
    /\ UNCHANGED <<config, publisher, prune, api, conn, alloc, sup, client, watcher, store, published, shards, ws, authVars, gateVars>>

\* The shutdown one-shot of the watcher fires.
WsWatcherSignal ==
    /\ wsclient.watcher = "select"
    /\ ~wsclient.shutdown
    /\ wsclient' = [wsclient EXCEPT !.shutdown = TRUE]
    /\ UNCHANGED <<config, publisher, prune, api, conn, alloc, sup, client, watcher, store, published, shards, ws, authVars, gateVars>>

\* project_watcher_task's select (share.rs 459-487): on shutdown it closes
\* the connection and returns; when close_rx resolves, with Ok or with Err,
\* it closes the connection and waits to reconnect.
WsWatcherSelect(branch) ==
    /\ wsclient.watcher = "select"
    /\ \/ branch = "shutdown_rx" /\ wsclient.shutdown
          /\ wsclient' = [wsclient EXCEPT !.watcher = "returned", !.cancel = TRUE,
                                          !.left_by = branch]
       \/ branch = "close_rx" /\ close_rx_resolved(wsclient.close_tx)
          /\ wsclient' = [wsclient EXCEPT !.watcher = "reconnect_wait", !.cancel = TRUE,
                                          !.left_by = branch]
    /\ UNCHANGED <<config, publisher, prune, api, conn, alloc, sup, client, watcher, store, published, shards, ws, authVars, gateVars>>

(***************************************************************************)
(* Partition pruning under the advisory lock                               *)
(* (crates/remote/src/db/maintenance.rs, prune_old_partitions)             *)
(***************************************************************************)
\* INTERVAL '2 days' of the partition query, maintenance.rs:99.
PRUNE_AGE_DAYS == 2

\* Server instances, each with its pruning task.
PruneWorkerIds == {1, 2}
\* A partition is known by the age of its upper bound, in days.
PartitionAges == 0..3

\* The partition query, lines 85-104: the leaf partitions whose upper bound
\* is at or before NOW() - INTERVAL '2 days'.
prunable(partitions) == {age \in partitions : age >= PRUNE_AGE_DAYS}

\* ORDER BY upper_bound: the oldest partition comes first.
oldest(ages) == CHOOSE age \in ages : \A other \in ages : other <= age

\* pg_try_advisory_lock with the lock held by `holder` (0: by nobody).
try_advisory_lock(holder) == holder = 0

IdlePruneWorker == [pc |-> "idle", acquired |-> FALSE, todo |-> {}, dropped |-> {},
                    result |-> ""]

\* No worker is pruning.  lock: the session holding the advisory lock;
\* partitions: the attached partitions; detached: partitions detached and not
\* dropped.
IdlePrune ==
    [lock |-> 0, partitions |-> {}, detached |-> {},
     workers |-> [w \in PruneWorkerIds |-> IdlePruneWorker]]

\* spawn_activity_partition_maintenance, lines 35-46: at startup and at
\* every prune_time the task calls prune_old_partitions, whatever the last
\* call returned.  Lines 65-66: a connection is acquired.  A connection on
\* which the unlock failed is taken to be broken: the pool has discarded it,
\* ending its session, before the worker's next run.
PruneBegin(w, ok) ==
    /\ prune.workers[w].pc \in {"idle", "returned"}
    /\ prune.lock # w
    /\ prune' = [prune EXCEPT !.workers[w] =
          IF ok THEN [IdlePruneWorker EXCEPT !.pc = "try_lock"]
          ELSE [IdlePruneWorker EXCEPT !.pc = "returned", !.result = "Err"]]
    /\ UNCHANGED <<config, publisher, wsclient, api, conn, alloc, sup, client, watcher, store, published, shards, ws, authVars, gateVars>>

\* Lines 68-81: pg_try_advisory_lock.  A failed query is returned as Err; a
\* lock held elsewhere makes the call return Ok at once.
PruneTryLock(w, ok) ==
    /\ prune.workers[w].pc = "try_lock"
    /\ prune' =
         IF ~ok THEN [prune EXCEPT !.workers[w].pc = "returned",
                                   !.workers[w].result = "Err"]
         ELSE IF try_advisory_lock(prune.lock)
         THEN [prune EXCEPT !.lock = w, !.workers[w].pc = "select",
                            !.workers[w].acquired = TRUE]
         ELSE [prune EXCEPT !.workers[w].pc = "returned", !.workers[w].result = "Ok"]
    /\ UNCHANGED <<config, publisher, wsclient, api, conn, alloc, sup, client, watcher, store, published, shards, ws, authVars, gateVars>>

\* Lines 83-104: the partitions to drop are read.
PruneSelect(w, ok) ==
    /\ prune.workers[w].pc = "select"
    /\ prune' =
         IF ok THEN [prune EXCEPT !.workers[w].pc = "drop",
                                  !.workers[w].todo = prunable(prune.partitions)]
         ELSE [prune EXCEPT !.workers[w].pc = "unlock", !.workers[w].result = "Err"]
    /\ UNCHANGED <<config, publisher, wsclient, api, conn, alloc, sup, client, watcher, store, published, shards, ws, authVars, gateVars>>

\* Lines 106-116, one turn of the for loop: DETACH PARTITION, then DROP
\* TABLE; the first statement that fails ends the loop with its error.
PruneDrop(w, outcome) ==
    LET worker == prune.workers[w]
        age == oldest(worker.todo)
    IN
    /\ worker.pc = "drop"
    /\ worker.todo # {}
    /\ prune' =
         CASE outcome = "detach_failed" ->
                [prune EXCEPT !.workers[w].pc = "unlock", !.workers[w].result = "Err"]
           [] outcome = "drop_failed" ->
                [prune EXCEPT !.partitions = @ \ {age}, !.detached = @ \cup {age},
                              !.workers[w].pc = "unlock", !.workers[w].result = "Err"]
           [] OTHER ->
                [prune EXCEPT !.partitions = @ \ {age},
                              !.workers[w].todo = @ \ {age},
                              !.workers[w].dropped = @ \cup {age}]
    /\ UNCHANGED <<config, publisher, wsclient, api, conn, alloc, sup, client, watcher, store, published, shards, ws, authVars, gateVars>>

\* Line 118: the loop is through.
PruneDone(w) ==
    /\ prune.workers[w].pc = "drop"
    /\ prune.workers[w].todo = {}
    /\ prune' = [prune EXCEPT !.workers[w].pc = "unlock", !.workers[w].result = "Ok"]
    /\ UNCHANGED <<config, publisher, wsclient, api, conn, alloc, sup, client, watcher, store, published, shards, ws, authVars, gateVars>>

\* Lines 122-131: pg_advisory_unlock; `let _ =` discards its result, and the
\* result of the pruning is returned.
PruneUnlock(w, ok) ==
    /\ prune.workers[w].pc = "unlock"
    /\ prune' = [prune EXCEPT !.lock = IF ok THEN 0 ELSE @,
                              !.workers[w].pc = "returned"]
    /\ UNCHANGED <<config, publisher, wsclient, api, conn, alloc, sup, client, watcher, store, published, shards, ws, authVars, gateVars>>

\* The database session that took the lock ends (the pool closes the
\* connection): the server releases its advisory locks.
PruneSessionEnds(w) ==
    /\ prune.workers[w].pc = "returned"
    /\ prune.lock = w
    /\ prune' = [prune EXCEPT !.lock = 0]
    /\ UNCHANGED <<config, publisher, wsclient, api, conn, alloc, sup, client, watcher, store, published, shards, ws, authVars, gateVars>>

(***************************************************************************)
(* Publisher API: task mutation, activity row and publish (spec 4.8, 5;    *)
(* routes/error.rs for the errors a handler returns)                       *)
(***************************************************************************)
\* Mutations committed to the task before the model stops.
MaxMutations == 3

\* Handlers mutating the same task of one project at the same time.
HandlerIds == {1, 2}

\* If-Match values a request carries (None: no If-Match).
IfMatches == {None} \cup (0..MaxMutations)

IdleHandler == [pc |-> "idle", if_match |-> None, version |-> 0, seq |-> 0, result |-> ""]

\* The task at version 0 with no activity.  lock: the handler whose
\* transaction holds the rows; activity: the committed activity rows in
\* commit order; channel: the events ActivityBroker::publish was called
\* with, in call order, as a subscriber that keeps up receives them.
IdlePublisher ==
    [task |-> [version |-> 0], lock |-> 0, activity |-> <<>>, channel |-> <<>>,
     handlers |-> [h \in HandlerIds |-> IdleHandler]]

\* The errors of task_error_response (error.rs 31-78) a mutation of an
\* existing task can fail with inside its transaction.
mutation_error(task, if_match, role_ok, db_ok) ==
    CASE if_match # None /\ if_match # task.version -> "Conflict"
      [] ~role_ok -> "Forbidden"
      [] ~db_ok -> "Database"
      [] OTHER -> ""

\* A rollback that leaves the task row as the transaction wrote it.
rollback_keeps_task(task, handler) == [task EXCEPT !.version = handler.version]

\* Rollback: the task row is as it was before the transaction.
rollback(task, handler) == task

\* Step 1 and the start of step 2: the request passed the gate and the
\* transaction begins.
PubBegin(h, if_match) ==
    /\ publisher.handlers[h].pc \in {"idle", "done"}
    /\ publisher.task.version < MaxMutations
    /\ publisher' = [publisher EXCEPT !.handlers[h] =
                        [IdleHandler EXCEPT !.pc = "begun", !.if_match = if_match]]
    /\ UNCHANGED <<config, prune, wsclient, api, conn, alloc, sup, client, watcher, store, published, shards, ws, authVars, gateVars>>

\* Step 2 up to the commit: with the rows locked the task is loaded, If-Match
\* and the role rules are enforced, the mutation increments version and the
\* activity row is inserted with the next seq.  An error rolls back.
PubMutate(h, role_ok, db_ok) ==
    LET handler == publisher.handlers[h]
        error == mutation_error(publisher.task, handler.if_match, role_ok, db_ok)
        written == [handler EXCEPT !.version = publisher.task.version + 1,
                                   !.seq = allocate_seq(Len(publisher.activity))]
    IN
    /\ handler.pc = "begun"
    /\ ~row_locked(publisher.lock)
    /\ publisher' =
         IF error # ""
         THEN [publisher EXCEPT !.task = rollback(@, written),
                                !.handlers[h].pc = "done", !.handlers[h].result = error]
         ELSE [publisher EXCEPT !.lock = h, !.handlers[h] = [written EXCEPT !.pc = "written"]]
    /\ UNCHANGED <<config, prune, wsclient, api, conn, alloc, sup, client, watcher, store, published, shards, ws, authVars, gateVars>>

\* The commit of step 2: task row and activity row become visible together;
\* a commit that fails rolls both back.
PubCommit(h, ok) ==
    LET handler == publisher.handlers[h] IN
    /\ handler.pc = "written"
    /\ publisher' =
         IF ok
         THEN [publisher EXCEPT !.task.version = handler.version,
                                !.activity = Append(@, [seq |-> handler.seq,
                                                        version |-> handler.version,
                                                        handler |-> h]),
                                !.lock = 0, !.handlers[h].pc = "committed"]
         ELSE [publisher EXCEPT !.task = rollback(@, handler), !.lock = 0,
                                !.handlers[h].pc = "done",
                                !.handlers[h].result = "Database"]
    /\ UNCHANGED <<config, prune, wsclient, api, conn, alloc, sup, client, watcher, store, published, shards, ws, authVars, gateVars>>

\* Step 3: after its commit the handler publishes its event
\* (ActivityBroker::publish, broker.rs 88-93) and returns the task.
PubPublish(h) ==
    LET handler == publisher.handlers[h] IN
    /\ handler.pc = "committed"
    /\ publisher' = [publisher EXCEPT
          !.channel = broadcast_send(@, 1, [seq |-> handler.seq, handler |-> h]),
          !.handlers[h].pc = "done", !.handlers[h].result = "Ok"]
    /\ UNCHANGED <<config, prune, wsclient, api, conn, alloc, sup, client, watcher, store, published, shards, ws, authVars, gateVars>>

(***************************************************************************)
(* Websocket authorization (ws/session.rs, WsAuthState)                    *)
(***************************************************************************)
\* Ways the authorization behind a connection is lost: the auth session is
\* revoked, the user loses access to the project, or the access token's expiry
\* plus WS_TOKEN_EXPIRY_GRACE passes with no fresh token.
AuthLosses == {"revoked", "membership", "expired"}

\* WsAuthState::verify and the message handle picks for its error
\* (lines 206-213); "" when verify returns Ok.
verify(auth, db_ok) ==
    CASE auth = "expired" -> "authorization expired"
      [] ~db_ok -> "authorization error"
      [] auth = "revoked" -> "authorization revoked"
      [] auth = "membership" -> "project access revoked"
      [] OTHER -> ""

\* The authorization of session s is lost.
AuthLost(s, loss) ==
    /\ ws[s].pc \notin {"closed", "terminated"}
    /\ ws[s].auth = "valid"
    /\ ws' = [ws EXCEPT ![s].auth = loss]
    /\ UNCHANGED <<config, publisher, prune, wsclient, api, conn, alloc, sup, client, watcher, store, published, shards, authVars, gateVars>>

\* WS_AUTH_REFRESH_INTERVAL elapses: auth_check_interval has a tick ready
\* (missed ticks are skipped, so at most one).  "due_after_loss": the tick
\* became due when the authorization was already lost.
TickDue(s) ==
    /\ ws[s].pc \notin {"closed", "terminated"}
    /\ ws[s].tick # "due_after_loss"
    /\ ws[s].auth # "valid" \/ ws[s].tick = "waiting"
    /\ ws' = [ws EXCEPT ![s].tick = IF ws[s].auth = "valid" THEN "due" ELSE "due_after_loss"]
    /\ UNCHANGED <<config, publisher, prune, wsclient, api, conn, alloc, sup, client, watcher, store, published, shards, authVars, gateVars>>

\* handle, lines 201-219: the select loop takes the auth tick; it is a branch
\* of the LIVE loop only.
WsAuthTick(s, db_ok) ==
    LET message == verify(ws[s].auth, db_ok) IN
    /\ ws[s].pc = "live"
    /\ ws[s].tick # "waiting"
    /\ ws' = [ws EXCEPT ![s] =
          IF message = ""
          THEN [@ EXCEPT !.tick = "waiting"]
          ELSE Terminated([@ EXCEPT !.tick = "waiting"], @.frames, message)]
    /\ UNCHANGED <<config, publisher, prune, wsclient, api, conn, alloc, sup, client, watcher, store, published, shards, authVars, gateVars>>

Init ==
    /\ config \in [shard_count : ShardCounts,
                   shard_capacity : ShardCapacities,
                   batch_size : BatchSizes]
    /\ store = [p \in ProjectIds |-> 0]
    /\ published = [p \in ProjectIds |-> 0]
    /\ shards = [i \in ShardIds |-> <<>>]
    /\ ws = [s \in SessionIds |-> ClosedSession]
    /\ watcher = OfflineWatcher(None)
    /\ client = IdleClient(EmptyDb)
    /\ sup = IdleSup
    /\ alloc = IdleAlloc
    /\ conn = IdleConn
    /\ api = IdleApi
    /\ wsclient = IdleWsClient
    /\ prune = IdlePrune
    /\ publisher = IdlePublisher
    /\ AuthInit
    /\ GateInit

Next ==
    \/ \E p \in ProjectIds : Commit(p)
    \/ \E p \in ProjectIds : Publish(p)
    \/ \E s \in SessionIds, p \in ProjectIds, c \in Cursors : WsOpen(s, p, c)
    \/ \E s \in SessionIds, p \in ProjectIds, c \in Cursors : WsUpgradeDenied(s, p, c)
    \/ \E s \in SessionIds, p \in ProjectIds, c \in Cursors : WsHandleDenied(s, p, c)
    \/ \E s \in SessionIds, ok \in BOOLEAN, n \in 0..ActivityDefaultLimit : WsReplay(s, ok, n)
    \/ \E s \in SessionIds, ok \in BOOLEAN : WsLive(s, ok)
    \/ \E s \in SessionIds : WsCatchUpWait(s)
    \/ \E s \in SessionIds, ok \in BOOLEAN, n \in 0..MaxSeq : WsCatchUpDb(s, ok, n)
    \/ \E s \in SessionIds : WsInboundClose(s)

Spec == Init /\ [][Next]_vars

\* The token endpoint on its own: the broker idle, no websocket open.
InitRefresh ==
    /\ config = [shard_count |-> 1, shard_capacity |-> 1, batch_size |-> 1]
    /\ store = [p \in ProjectIds |-> 0]
    /\ published = [p \in ProjectIds |-> 0]
    /\ shards = [i \in ShardIds |-> <<>>]
    /\ ws = [s \in SessionIds |-> ClosedSession]
    /\ watcher = OfflineWatcher(None)
    /\ client = IdleClient(EmptyDb)
    /\ sup = IdleSup
    /\ alloc = IdleAlloc
    /\ conn = IdleConn
    /\ api = IdleApi
    /\ wsclient = IdleWsClient
    /\ prune = IdlePrune
    /\ publisher = IdlePublisher
    /\ AuthInit
    /\ GateInit

NextRefresh ==
    \/ \E c \in CallIds : \E token \in PresentableTokens : RefreshDecode(c, token)
    \/ \E c \in CallIds, db_ok \in BOOLEAN : RefreshGet(c, db_ok)
    \/ \E c \in CallIds, db_ok \in BOOLEAN : RefreshCheckRevoked(c, db_ok)
    \/ \E c \in CallIds, db_ok \in BOOLEAN : RefreshRevokeAll(c, db_ok)
    \/ \E c \in CallIds, db_ok \in BOOLEAN : RefreshGenerate(c, db_ok)
    \/ \E c \in CallIds, db_ok \in BOOLEAN : RefreshRotate(c, db_ok)
    \/ \E s \in AuthSessionIds : Revoke(s)

SpecRefresh == InitRefresh /\ [][NextRefresh]_vars

\* The websocket session with its authorization checks, under one broker
\* configuration.
InitWsAuth ==
    /\ config = [shard_count |-> 1, shard_capacity |-> 1, batch_size |-> 1]
    /\ store = [p \in ProjectIds |-> 0]
    /\ published = [p \in ProjectIds |-> 0]
    /\ shards = [i \in ShardIds |-> <<>>]
    /\ ws = [s \in SessionIds |-> ClosedSession]
    /\ watcher = OfflineWatcher(None)
    /\ client = IdleClient(EmptyDb)
    /\ sup = IdleSup
    /\ alloc = IdleAlloc
    /\ conn = IdleConn
    /\ api = IdleApi
    /\ wsclient = IdleWsClient
    /\ prune = IdlePrune
    /\ publisher = IdlePublisher
    /\ AuthInit
    /\ GateInit

NextWsAuth ==
    \/ Next
    \/ \E s \in SessionIds, loss \in AuthLosses : AuthLost(s, loss)
    \/ \E s \in SessionIds : TickDue(s)
    \/ \E s \in SessionIds, db_ok \in BOOLEAN : WsAuthTick(s, db_ok)

SpecWsAuth == InitWsAuth /\ [][NextWsAuth]_vars

\* The client watcher against the activity store.  The server starts with
\* up to one event and the client with or without a cursor for it.
InitWatcher ==
    /\ config = [shard_count |-> 1, shard_capacity |-> 1, batch_size |-> 1]
    /\ store \in {[p \in ProjectIds |-> IF p = WatchedProject THEN n ELSE 0] : n \in 0..1}
    /\ published = [p \in ProjectIds |-> 0]
    /\ shards = [i \in ShardIds |-> <<>>]
    /\ ws = [s \in SessionIds |-> ClosedSession]
    /\ watcher \in {OfflineWatcher(c) : c \in {None} \cup 1..store[WatchedProject]}
    /\ client = IdleClient(EmptyDb)
    /\ sup = IdleSup
    /\ alloc = IdleAlloc
    /\ conn = IdleConn
    /\ api = IdleApi
    /\ wsclient = IdleWsClient
    /\ prune = IdlePrune
    /\ publisher = IdlePublisher
    /\ AuthInit
    /\ GateInit

NextWatcher ==
    \/ ServerCommit
    \/ WatcherAuthWait
    \/ WatcherReconnect
    \/ WatcherMissingAuth
    \/ WatcherSpawnWs
    \/ \E ok \in BOOLEAN : WatcherWsConnect(ok)
    \/ \E ok \in BOOLEAN : WatcherWsEvent(ok)
    \/ WatcherWsBacklogDropped
    \/ WatcherWsClosed
    \/ WatcherBackoffDone
    \/ \E ok \in BOOLEAN : WatcherBulkSync(ok)
    \/ \E ok \in BOOLEAN, n \in 0..activity_page_limit : WatcherFetch(ok, n)

\* A watcher that returned an error is respawned (RemoteSync::run's 5 s
\* reconcile tick), a wait in backoff ends, and a request retried for ever
\* succeeds in the end (the profile is there, the store answers).
SpecWatcher ==
    /\ InitWatcher
    /\ [][NextWatcher]_vars
    /\ SF_vars(WatcherReconnect)
    /\ WF_vars(WatcherBackoffDone)
    /\ SF_vars(WatcherBulkSync(TRUE))
    /\ SF_vars(WatcherFetchOk)

\* The client database under process_event and bulk_sync, one at a time.
InitClientDb ==
    /\ config = [shard_count |-> 1, shard_capacity |-> 1, batch_size |-> 1]
    /\ store = [p \in ProjectIds |-> 0]
    /\ published = [p \in ProjectIds |-> 0]
    /\ shards = [i \in ShardIds |-> <<>>]
    /\ ws = [s \in SessionIds |-> ClosedSession]
    /\ watcher = OfflineWatcher(None)
    /\ client \in {IdleClient(d) : d \in ClientDbs}
    /\ sup = IdleSup
    /\ alloc = IdleAlloc
    /\ conn = IdleConn
    /\ api = IdleApi
    /\ wsclient = IdleWsClient
    /\ prune = IdlePrune
    /\ publisher = IdlePublisher
    /\ AuthInit
    /\ GateInit

NextClientDb ==
    \/ \E event \in Events, ok \in BOOLEAN : ClientBeginEvent(event, ok)
    \/ \E event \in Events, project \in ProjectIds, ok \in BOOLEAN :
          ClientWsEvent(event, project, ok)
    \/ \E snapshot \in Snapshots, ok \in BOOLEAN : ClientBeginBulk(snapshot, ok)
    \/ \E ok \in BOOLEAN : ClientTxWrite(ok)
    \/ \E ok \in BOOLEAN : ClientTxCommit(ok)

SpecClientDb == InitClientDb /\ [][NextClientDb]_vars

\* The session gate on its own.  Session 1 was used on day 0 or never, and may
\* have been revoked already (a logout, a detected token reuse).
InitGate ==
    /\ config = [shard_count |-> 1, shard_capacity |-> 1, batch_size |-> 1]
    /\ store = [p \in ProjectIds |-> 0]
    /\ published = [p \in ProjectIds |-> 0]
    /\ shards = [i \in ShardIds |-> <<>>]
    /\ ws = [s \in SessionIds |-> ClosedSession]
    /\ watcher = OfflineWatcher(None)
    /\ client = IdleClient(EmptyDb)
    /\ sup = IdleSup
    /\ alloc = IdleAlloc
    /\ conn = IdleConn
    /\ api = IdleApi
    /\ wsclient = IdleWsClient
    /\ prune = IdlePrune
    /\ publisher = IdlePublisher
    /\ \E revoked \in BOOLEAN, used \in {None, 0} :
          auth_sessions = [s \in AuthSessionIds |->
              [id |-> s, user_id |-> session_user[s], refresh_token_id |-> s,
               revoked_at |-> (s = 1 /\ revoked), session_secret_hash |-> 1,
               created_at |-> 0, last_used_at |-> IF s = 1 THEN used ELSE None]]
    /\ revoked_refresh_tokens = {}
    /\ issued = {[session_id |-> s, jti |-> s] : s \in AuthSessionIds}
    /\ next_token_id = Cardinality(AuthSessionIds) + 1
    /\ calls = [c \in CallIds |-> IdleCall]
    /\ GateInit

NextGate ==
    \/ \E r \in RequestIds : \E bearer \in Bearers : GateArrive(r, bearer)
    \/ \E r \in RequestIds, db_ok \in BOOLEAN : GateGet(r, db_ok)
    \/ \E r \in RequestIds, db_ok \in BOOLEAN : GateRevoke(r, db_ok)
    \/ \E r \in RequestIds, result \in {"Ok", "NotFound", "Database"} : GateFetchUser(r, result)
    \/ \E r \in RequestIds, db_ok \in BOOLEAN : GateTouchAndRun(r, db_ok)
    \/ Tick

SpecGate == InitGate /\ [][NextGate]_vars

(***************************************************************************)
(* Properties of the websocket session and the broker                      *)
(***************************************************************************)
Cursor0(sess) == IF sess.cursor = None THEN 0 ELSE sess.cursor
SentSeqs(sess) == {sess.frames[i].seq : i \in 1..Len(sess.frames)}
SentVia(sess, state) == \E i \in 1..Len(sess.frames) : sess.frames[i].via = state
ShardOf(sess) == shard_index(sess.project_id)
\* seq of the session's project is stored in its shard beyond position `next`.
PendingOnStream(sess, next, seq) ==
    \E i \in (next + 1)..TailPos(ShardOf(sess)) :
        shards[ShardOf(sess)][i] = [project_id |-> sess.project_id, seq |-> seq]
\* A receiver at position `next` has fallen behind the ring by more than n.
Behind(sess, next, n) == next # NoStream /\ TailPos(ShardOf(sess)) - next > n

\* C1: the seqs of the activity frames sent on a session opened with cursor c
\* (absent: 0) are exactly c+1, c+2, ..., in this order.
C1_FramesContiguousFromCursor ==
    \A s \in SessionIds : \A i \in 1..Len(ws[s].frames) :
        ws[s].frames[i].seq = Cursor0(ws[s]) + i

\* C2: the seqs sent on one socket are strictly increasing.
C2_FramesStrictlyIncreasing ==
    \A s \in SessionIds : \A i, j \in 1..Len(ws[s].frames) :
        i < j => ws[s].frames[i].seq < ws[s].frames[j].seq

\* A session that sent frames in REPLAY and afterwards in LIVE.
C2_Witness ==
    \E s \in SessionIds :
        /\ ws[s].pc = "live"
        /\ SentVia(ws[s], "replay") /\ SentVia(ws[s], "live")

\* C3: once REPLAY has read the history, every event committed after that read
\* (seq above the cursor) has been sent, is still to be published, or waits on
\* the session's stream; and no seq is sent twice.
C3_NoLossBetweenReplayAndLive ==
    \A s \in SessionIds :
        LET sess == ws[s] IN
        (sess.pc = "live" /\ sess.fetched_upto # None) =>
            /\ \A seq \in (Max(Cursor0(sess), sess.fetched_upto) + 1)..store[sess.project_id] :
                  \/ seq \in SentSeqs(sess)
                  \/ seq > published[sess.project_id]
                  \/ PendingOnStream(sess, sess.activity_stream, seq)
            /\ \A i, j \in 1..Len(sess.frames) :
                  i # j => sess.frames[i].seq # sess.frames[j].seq

\* A LIVE session whose stream has already yielded an event that REPLAY sent:
\* the event was committed and published between subscribe and fetch.
C3_Witness ==
    \E s \in SessionIds :
        LET sess == ws[s] IN
        /\ sess.pc = "live"
        /\ sess.fetched_upto # None
        /\ \E i \in 1..sess.activity_stream, k \in 1..Len(sess.frames) :
              /\ sess.frames[k].via = "replay"
              /\ shards[ShardOf(sess)][i] =
                     [project_id |-> sess.project_id, seq |-> sess.frames[k].seq]

\* C4: a connected session (history read succeeded) that has nothing left to
\* receive, while every committed event is published, has sent every committed
\* event above its cursor: delivery does not wait for a later event.
C4_DeliveredWithoutLaterEvent ==
    \A s \in SessionIds :
        LET sess == ws[s]
            next == IF sess.pc = "live" THEN sess.activity_stream ELSE sess.new_stream
        IN
        ( /\ sess.pc \in {"live", "catchup_wait"}
          /\ sess.fetched_upto # None
          /\ published[sess.project_id] = store[sess.project_id]
          /\ stream_next(sess.project_id, next).kind = "Empty" )
        => \A seq \in (Cursor0(sess) + 1)..store[sess.project_id] : seq \in SentSeqs(sess)

\* C8 as written: a receiver more than shard_capacity values behind polls Lagged.
C8_LaggedBeyondShardCapacity ==
    \A s \in SessionIds :
        Behind(ws[s], ws[s].activity_stream, Max(config.shard_capacity, 1))
        => stream_next(ws[s].project_id, ws[s].activity_stream).kind = "Lagged"

\* C8 (amended): a receiver more than the ring's length (shard_capacity rounded
\* up to a power of two) behind polls Lagged(n), n >= 1, and a session never
\* sends a frame that does not continue the previous one by exactly 1.
C8_LaggedThenCatchUp ==
    \A s \in SessionIds :
        LET sess == ws[s] IN
        /\ \A next \in {sess.activity_stream, sess.new_stream} :
              Behind(sess, next, BufferLen) =>
                  /\ stream_next(sess.project_id, next).kind = "Lagged"
                  /\ stream_next(sess.project_id, next).missed >= 1
        /\ \A i \in 2..Len(sess.frames) :
              sess.frames[i].seq = sess.frames[i - 1].seq + 1

\* A session back in LIVE after a catch-up entered on Lagged that sent frames
\* read from the store.
C8_Witness ==
    \E s \in SessionIds :
        ws[s].pc = "live" /\ ws[s].reason = "lag" /\ SentVia(ws[s], "catchup")

\* What a session's streams will yield: the values stored beyond each cursor
\* and whether the cursor has been overrun.
StreamView(s) ==
    [next \in {ws[s].activity_stream, ws[s].new_stream} \ {NoStream} |->
        [lagged |-> Behind(ws[s], next, BufferLen),
         values |-> SubSeq(shards[ShardOf(ws[s])], next + 1, TailPos(ShardOf(ws[s])))]]
Lagging(s) == \E next \in {ws[s].activity_stream, ws[s].new_stream} :
                  Behind(ws[s], next, BufferLen)

\* C9 as written: publishing an event of project P never makes a subscriber of
\* another project lag.
C9_NoCrossProjectLag ==
    [][\A p \in ProjectIds, s \in SessionIds :
          (published'[p] # published[p] /\ ws[s].project_id # p /\ ~Lagging(s))
          => ~Lagging(s)']_vars

\* C9 (amended): publishing an event of project P changes nothing of what a
\* subscriber of a project hashed to a different shard will receive.
C9_ShardIsolation ==
    [][\A p \in ProjectIds, s \in SessionIds :
          ( /\ published'[p] # published[p]
            /\ hasher_finish(p) % ShardCount # hasher_finish(ws[s].project_id) % ShardCount )
          => StreamView(s)' = StreamView(s)]_vars

\* A session on a shard of its own that is not lagging although another
\* project has published more events than a ring holds.
C9_Witness ==
    \E p \in ProjectIds, s \in SessionIds :
        /\ ws[s].activity_stream # NoStream
        /\ hasher_finish(p) % ShardCount # hasher_finish(ws[s].project_id) % ShardCount
        /\ published[p] > BufferLen
        /\ ~Lagging(s)

\* C10: a committed event can always be published; the publish changes no
\* session, stores the event when the shard has a receiver and drops it
\* otherwise.
C10_PublishNeverBlocks ==
    /\ [](\A p \in ProjectIds : published[p] < store[p] => ENABLED Publish(p))
    /\ [][\A p \in ProjectIds :
            published'[p] # published[p] =>
                /\ ws' = ws
                /\ shards' = IF rx_cnt(shard_index(p)) = 0 THEN shards
                             ELSE [shards EXCEPT ![shard_index(p)] =
                                      Append(@, [project_id |-> p, seq |-> published[p] + 1])]]_vars

\* An event was published while nobody was subscribed, and later publishes
\* went through although the session's receiver had been overrun.
C10_Witness ==
    \E s \in SessionIds :
        /\ Lagging(s)
        /\ \E p \in ProjectIds :
              published[p] > Cardinality({i \in 1..TailPos(shard_index(p)) :
                                             shards[shard_index(p)][i].project_id = p})

(***************************************************************************)
(* Properties of the refresh-token rotation                                *)
(***************************************************************************)
Done(c) == calls[c].pc = "done"
\* Calls c and d presented the same refresh token.
SameToken(c, d) ==
    /\ c # d
    /\ calls[c].token.form = "refresh" /\ calls[d].token.form = "refresh"
    /\ calls[c].token.session_id = calls[d].token.session_id
    /\ calls[c].token.jti = calls[d].token.jti
AllSessionsRevoked(user_id) ==
    \A s \in AuthSessionIds : auth_sessions[s].user_id = user_id => auth_sessions[s].revoked_at
DbFailure(c) == calls[c].result \in {"internal_error", "identity_error"}

\* C5 as written: of two calls presenting the same (unexpired) refresh token,
\* not failing on the database, at most one returns a pair and then the other
\* returns token_reuse_detected with every session of the user revoked.
C5_OtherCallSeesReuse ==
    \A c, d \in CallIds :
        ( /\ SameToken(c, d) /\ Done(c) /\ Done(d)
          /\ ~calls[c].token.expired /\ ~calls[d].token.expired
          /\ ~DbFailure(c) /\ ~DbFailure(d) )
        => /\ ~(calls[c].result = "ok" /\ calls[d].result = "ok")
           /\ calls[c].result = "ok" =>
                 /\ calls[d].result = "token_reuse_detected"
                 /\ AllSessionsRevoked(calls[d].token.user_id)

\* C5 (amended): of two calls presenting the same refresh token at most one
\* returns a pair; when one does, the other returns token_reuse_detected if it
\* loaded the session unrevoked and no database call failed; and whenever a
\* call has returned token_reuse_detected every session of that user is revoked.
C5_AtMostOnePair ==
    /\ \A c, d \in CallIds :
          (SameToken(c, d) /\ Done(c) /\ Done(d)) =>
              /\ ~(calls[c].result = "ok" /\ calls[d].result = "ok")
              /\ ( /\ calls[c].result = "ok"
                   /\ calls[d].session # NoSession /\ ~calls[d].session.revoked_at
                   /\ ~DbFailure(d) )
                 => calls[d].result = "token_reuse_detected"
    /\ \A c \in CallIds :
          calls[c].result = "token_reuse_detected" =>
              AllSessionsRevoked(calls[c].token.user_id)

\* Two concurrent calls with the same token: both passed the checks and
\* generated a pair, one rotated, the other was answered token_reuse_detected.
C5_Witness ==
    \E c, d \in CallIds :
        /\ SameToken(c, d) /\ Done(c) /\ Done(d)
        /\ calls[c].result = "ok"
        /\ calls[d].result = "token_reuse_detected"
        /\ calls[d].new_token_id # 0

\* C6: a call that ends (not on a database failure) while its session is
\* revoked ends with session_revoked and changes no auth state.
C6_RevokedSessionGetsNoPair ==
    [][\A c \in CallIds :
          ( /\ calls[c].pc \notin {"idle", "done"} /\ calls'[c].pc = "done"
            /\ auth_sessions[calls[c].token.session_id].revoked_at
            /\ calls'[c].result \notin {"internal_error", "identity_error"} )
          => /\ calls'[c].result = "session_revoked"
             /\ auth_sessions' = auth_sessions
             /\ revoked_refresh_tokens' = revoked_refresh_tokens]_vars

\* C7: a call whose token fails decoding loads no session, changes no auth
\* state and is answered token_expired for an expired refresh token and
\* invalid_token for a malformed, empty or wrong-audience one.
C7_DecodeFailureCodes ==
    [][\A c \in CallIds :
          (calls[c].pc = "idle" /\ calls'[c].pc = "done") =>
              /\ auth_sessions' = auth_sessions
              /\ revoked_refresh_tokens' = revoked_refresh_tokens
              /\ calls'[c].session = NoSession
              /\ calls'[c].result =
                    IF calls'[c].token.form = "refresh" /\ calls'[c].token.expired
                    THEN "token_expired" ELSE "invalid_token"]_vars

(***************************************************************************)
(* Properties of CATCHUP                                                   *)
(***************************************************************************)
\* The live event a session waiting in activity_stream_catch_up receives next.
NextTarget(s) == stream_next(ws[s].project_id, ws[s].new_stream)

\* C11: when the awaited live event gives target_seq above the baseline, the
\* session ends with the error frame "activity backlog dropped" and no new
\* activity frame if target_seq - last_seq > threshold, and goes on to read the
\* store if the difference is at most the threshold.
C11_BulkThreshold ==
    [][\A s \in SessionIds :
          LET diff == NextTarget(s).event.seq - ws[s].last_seq IN
          ( /\ ws[s].pc = "catchup_wait" /\ ws'[s] # ws[s]
            /\ NextTarget(s).kind = "Ok" /\ diff > 0 )
          => IF diff > BulkSyncThreshold
             THEN /\ ws'[s].pc = "terminated"
                  /\ ws'[s].error = "activity backlog dropped"
                  /\ ws'[s].frames = ws[s].frames
             ELSE /\ ws'[s].pc = "catchup_db"
                  /\ ws'[s].error = ""]_vars

\* A catch-up whose target is exactly the threshold above its baseline reads
\* the store.
C11_Witness ==
    \E s \in SessionIds :
        /\ ws[s].pc = "catchup_db"
        /\ ws[s].target_seq - ws[s].last_seq = BulkSyncThreshold

\* The step in which session s leaves activity_stream_catch_up.
LeavesCatchUp(s) ==
    /\ ws[s].pc \in {"catchup_wait", "catchup_db"}
    /\ ws'[s].pc \in {"live", "terminated"}

\* Session s is back in LIVE at or beyond the target, having sent since the
\* baseline exactly the store events baseline+1 .. target, in order.
ResumedAtTarget(s) ==
    LET target == IF ws[s].pc = "catchup_db" THEN ws[s].target_seq
                  ELSE NextTarget(s).event.seq
        n      == IF target > ws[s].last_seq THEN target - ws[s].last_seq ELSE 0
        k      == Len(ws'[s].frames)
    IN
    /\ ws'[s].pc = "live"
    /\ ws'[s].last_sent_seq >= target
    /\ ws'[s].last_sent_seq = ws[s].last_seq + n
    /\ k >= n
    /\ \A i \in 1..n : ws'[s].frames[k - n + i] = [seq |-> ws[s].last_seq + i, via |-> "catchup"]
    /\ k > n => ws'[s].frames[k - n].seq <= ws[s].last_seq

\* C12 as written: a catch-up ends back in LIVE at the target with every event
\* up to it sent once, or with the error frame "activity backlog dropped".
C12_ResumeOrBacklogError ==
    [][\A s \in SessionIds :
          LeavesCatchUp(s) =>
              \/ ResumedAtTarget(s)
              \/ ws'[s].pc = "terminated" /\ ws'[s].error = "activity backlog dropped"]_vars

\* C12 (amended): ... or the session ends without an error frame because an
\* activity frame could not be sent on the socket.
C12_ResumeOrTerminate ==
    [][\A s \in SessionIds :
          LeavesCatchUp(s) =>
              \/ ResumedAtTarget(s)
              \/ ws'[s].pc = "terminated" /\ ws'[s].error = "activity backlog dropped"
              \/ /\ ws'[s].pc = "terminated" /\ ws'[s].error = ""
                 /\ ws[s].pc = "catchup_db"
                 /\ ws'[s].last_sent_seq = ws[s].last_sent_seq]_vars

\* A session back in LIVE after a catch-up that paged one event at a time and
\* stopped at its target although the store held later events.
C12_Witness ==
    \E s \in SessionIds :
        /\ ws[s].pc = "live" /\ config.batch_size = 1
        /\ \E i \in 2..Len(ws[s].frames) :
              ws[s].frames[i].via = "catchup" /\ ws[s].frames[i - 1].via = "catchup"
        /\ ws[s].last_sent_seq = ws[s].target_seq
        /\ store[ws[s].project_id] > ws[s].target_seq

\* C13: a LIVE session whose stream yields Lagged ends with the error frame
\* "activity backlog dropped" and no activity frame when it has no baseline
\* (no cursor, nothing sent), and enters catch-up from its baseline otherwise.
C13_LaggedWithoutBaseline ==
    [][\A s \in SessionIds :
          /\ ws[s].pc = "live" =>
                (ws[s].last_sent_seq = None <=> (ws[s].cursor = None /\ ws[s].frames = <<>>))
          /\ ( /\ ws[s].pc = "live"
               /\ stream_next(ws[s].project_id, ws[s].activity_stream).kind = "Lagged"
               /\ ws'[s] # ws[s]
               /\ ws'[s] # Terminated(ws[s], ws[s].frames, "") )
             => IF ws[s].last_sent_seq = None
                THEN /\ ws'[s].pc = "terminated"
                     /\ ws'[s].error = "activity backlog dropped"
                     /\ ws'[s].frames = <<>>
                ELSE /\ ws'[s].pc = "catchup_wait"
                     /\ ws'[s].reason = "lag"
                     /\ ws'[s].last_seq = ws[s].last_sent_seq
                     /\ ws'[s].frames = ws[s].frames]_vars

\* A session opened without cursor that was overrun before any event was sent.
C13_Witness ==
    \E s \in SessionIds :
        /\ ws[s].pc = "terminated" /\ ws[s].error = "activity backlog dropped"
        /\ ws[s].cursor = None /\ ws[s].frames = <<>> /\ ws[s].reason = ""
        /\ published[ws[s].project_id] > BufferLen

\* Session s is connected with nothing left to receive: every committed event
\* is published and the stream it polls is empty.
Idle(s) ==
    /\ ws[s].pc \in {"live", "catchup_wait"}
    /\ published[ws[s].project_id] = store[ws[s].project_id]
    /\ stream_next(ws[s].project_id,
                   IF ws[s].pc = "live" THEN ws[s].activity_stream
                   ELSE ws[s].new_stream).kind = "Empty"

\* C14: a session opened with a cursor more than the bulk threshold behind the
\* latest seq is closed with the error frame "activity backlog dropped": once
\* its history read has succeeded it does not stay connected with nothing left
\* to receive.
C14_FarBehindCursorClosed ==
    \A s \in SessionIds :
        (ws[s].far_behind /\ ws[s].fetched_upto # None) => ~Idle(s)

(***************************************************************************)
(* Properties of the session gate                                          *)
(***************************************************************************)
MaxInactivity == MaxInactivityDays * TicksPerDay
\* The session a request names exists, is not revoked and is not inactive now.
SessionAdmissible(r) ==
    LET sid == requests[r].bearer.session_id IN
    /\ sid \in AuthSessionIds
    /\ ~auth_sessions[sid].revoked_at
    /\ inactivity_duration(auth_sessions[sid], now) <= MaxInactivity

\* C15: the gate runs the handler only for a request with a bearer that
\* decodes, whose session existed, was not revoked and was not inactive for
\* more than the maximum when it was loaded; every other request is answered
\* 401, or 500 after a store error, and the handler is not run.
C15_GateAdmitsOnlyValidSessions ==
    [][\A r \in RequestIds :
          LET req == requests[r]
              nxt == requests'[r]
          IN
          /\ (nxt.invoked /\ nxt # req) =>
                /\ req.pc = "touch" /\ nxt.status = 200
                /\ req.bearer.form = "session" /\ jwt_decode(req.bearer)
                /\ req.session # NoSession /\ ~req.session.revoked_at
          /\ (nxt.pc = "touch" /\ nxt # req) => req.pc = "fetch_user"
          /\ (nxt.pc = "fetch_user" /\ nxt # req) =>
                req.pc = "get" /\ SessionAdmissible(r) /\ nxt.session = auth_sessions[req.bearer.session_id]
          /\ (nxt.pc = "done" /\ ~nxt.invoked) => nxt.status \in {401, 500}
          /\ (nxt.pc = "done" /\ nxt # req /\ nxt.status = 500) => req.pc \in {"get", "fetch_user"}
          /\ (nxt.pc = "get" /\ nxt # req) => nxt.bearer.form = "session"]_vars

\* A request let through whose session was inactive for exactly the maximum.
C15_Witness ==
    \E r \in RequestIds :
        /\ requests[r].invoked /\ requests[r].status = 200
        /\ inactivity_duration(requests[r].session, now) = MaxInactivity

\* Time since the session row's last use (its creation when never used).
Inactivity(row) == now - (IF row.last_used_at # None THEN row.last_used_at ELSE row.created_at)

\* C16 as written: a request on a session inactive for more than the maximum
\* is answered 401 and leaves the session revoked.
C16_InactiveSessionRevoked ==
    [][\A r \in RequestIds :
          (requests[r].pc = "revoke" /\ requests'[r].pc = "done") =>
              /\ requests'[r].status = 401
              /\ auth_sessions'[requests[r].session.id].revoked_at]_vars

\* C16 (amended): a request that loads an unrevoked session inactive for more
\* than the maximum is answered 401 without running the handler and revokes
\* the session unless that write fails; revoked_at is never cleared; a request
\* that loads a revoked session is rejected; and only a request that is let
\* through updates last_used_at.
C16_InactiveSessionRejected ==
    [][/\ \A r \in RequestIds :
            LET req == requests[r]
                nxt == requests'[r]
                sid == req.bearer.session_id
            IN
            /\ (req.pc = "get" /\ nxt # req /\ sid \in AuthSessionIds) =>
                  /\ ( /\ ~auth_sessions[sid].revoked_at
                       /\ auth_sessions[sid].session_secret_hash = req.bearer.nonce
                       /\ Inactivity(auth_sessions[sid]) > MaxInactivity )
                     => (nxt.pc = "revoke" \/ (nxt.pc = "done" /\ nxt.status = 500))
                  /\ nxt.pc = "revoke" => Inactivity(auth_sessions[sid]) > MaxInactivity
                  /\ auth_sessions[sid].revoked_at =>
                        (nxt.pc = "done" /\ nxt.status \in {401, 500} /\ ~nxt.invoked)
            /\ (req.pc = "revoke" /\ nxt # req) =>
                  /\ nxt.pc = "done" /\ nxt.status = 401 /\ ~nxt.invoked
                  /\ auth_sessions'[sid].revoked_at \/ nxt.revoke = "failed"
                  /\ auth_sessions'[sid].last_used_at = auth_sessions[sid].last_used_at
       /\ \A s \in AuthSessionIds :
            /\ auth_sessions[s].revoked_at => auth_sessions'[s].revoked_at
            /\ auth_sessions'[s].last_used_at # auth_sessions[s].last_used_at =>
                  \E r \in RequestIds :
                      /\ requests[r].pc = "touch" /\ requests'[r].invoked
                      /\ requests[r].session.id = s]_vars

\* A request was rejected for inactivity and revoked the session, and a later
\* request on the same session found it revoked and was rejected.
C16_Witness ==
    \E r, q \in RequestIds :
        /\ requests[r].pc = "done" /\ requests[r].revoke = "done" /\ requests[r].status = 401
        /\ requests[q].pc = "done" /\ requests[q].status = 401
        /\ requests[q].session.id = requests[r].session.id
        /\ requests[q].session.revoked_at /\ ~requests[r].session.revoked_at

(***************************************************************************)
(* Properties of the websocket authorization                               *)
(***************************************************************************)
\* C17 (its CATCHUP case): once the authorization is lost and the next auth
\* tick is due, a session in catch-up sends no further activity frame.
C17_NoFrameAfterAuthTickDue ==
    [][\A s \in SessionIds :
          (ws[s].tick = "due_after_loss" /\ ws[s].pc \in {"catchup_wait", "catchup_db"})
          => ws'[s].frames = ws[s].frames]_vars

(***************************************************************************)
(* Properties of the access check on connect                               *)
(***************************************************************************)
\* The session holds no broker subscription, has read no history and has
\* sent no activity frame.
Untouched(s) ==
    /\ ws[s].activity_stream = NoStream
    /\ ws[s].new_stream = NoStream
    /\ rx_cnt(shard_index(ws[s].project_id)) = 0
    /\ ws[s].fetched_upto = None
    /\ ws[s].frames = <<>>

\* C18 as stated: when the project access check denies the user, the
\* websocket is not upgraded and the session creates no broker subscription,
\* reads no history and sends no activity frame.
C18_DeniedNeverUpgraded ==
    \A s \in SessionIds :
        ws[s].access \in {"denied_at_upgrade", "denied_in_handle"}
        => ~ws[s].upgraded /\ Untouched(s)

\* C18 amended: a denial by upgrade's check leaves the websocket not
\* upgraded; a denial by handle's own check comes after the upgrade and drops
\* the socket; in both cases the session creates no broker subscription, reads
\* no history and sends no activity frame.
C18_DeniedNoSubscriptionNoFrames ==
    \A s \in SessionIds :
        /\ ws[s].access = "denied_at_upgrade" => ~ws[s].upgraded /\ Untouched(s)
        /\ ws[s].access = "denied_in_handle" => ws[s].pc = "terminated" /\ Untouched(s)

\* A denial by handle's check for a project that has history to replay and an
\* event waiting to be published.
C18_Witness ==
    \E s \in SessionIds :
        /\ ws[s].access = "denied_in_handle"
        /\ published[ws[s].project_id] > 0
        /\ store[ws[s].project_id] > published[ws[s].project_id]

(***************************************************************************)
(* Properties of the client watcher                                        *)
(***************************************************************************)
\* The events the watcher had missed when it reconnected (with a cursor).
Missed == watcher.target - watcher.start

\* The watcher applied exactly the events after the cursor it started with,
\* one by one in order, up to its present cursor.
AppliedOneByOne ==
    /\ Len(watcher.applied) = watcher.cursor - watcher.start
    /\ \A i \in 1..Len(watcher.applied) : watcher.applied[i] = watcher.start + i

\* The catch-up has ended at the server's latest seq without any bulk sync.
CaughtUpByEvents ==
    /\ watcher.pc = "caught_up"
    /\ watcher.cursor >= watcher.target
    /\ watcher.cursor = watcher.fetched_latest
    /\ watcher.bulk_syncs = 0
    /\ AppliedOneByOne

\* C19: a watcher that reconnects with a persisted cursor after missing k
\* events, k at most the bulk threshold, eventually has its cursor at the
\* server's latest seq, having applied the missed events one by one and made
\* no bulk sync.
C19_CatchUpWithoutBulkSync ==
    /\ [](watcher.start # None /\ Missed <= bulk_sync_threshold
            => /\ watcher.bulk_syncs = 0
               /\ watcher.pc = "caught_up" => CaughtUpByEvents)
    /\ (watcher.pc = "fetch" /\ watcher.start # None /\ Missed <= bulk_sync_threshold)
          ~> CaughtUpByEvents

\* A watcher that missed as many events as the threshold allows and caught up
\* over more than one page.
C19_Witness ==
    /\ watcher.start # None
    /\ Missed = bulk_sync_threshold
    /\ CaughtUpByEvents
    /\ Len(watcher.applied) > activity_page_limit

\* C20: a watcher that reconnects with a persisted cursor after missing more
\* events than the bulk threshold has, when its catch-up ends, made exactly one
\* bulk sync and applied none of the missed events one by one.
C20_ExactlyOneBulkSync ==
    (watcher.pc = "caught_up" /\ watcher.start # None /\ Missed > bulk_sync_threshold)
    => watcher.bulk_syncs = 1 /\ watcher.applied = <<>>

\* C21: when the websocket was closed by the error frame "activity backlog
\* dropped", the watcher has made a bulk sync of the project by the time its
\* next pass of the loop has caught up and is about to connect again.
C21_BulkSyncAfterBacklogDropped ==
    (watcher.dropped /\ watcher.pc = "caught_up") => watcher.bulk_syncs >= 1

\* C25: the delays of successive reconnect waits with no event processed in
\* between are 1, 2, 4, 8, 16, 30, 30, ... seconds: the first is the base
\* delay and each next one is min(2 x previous, 30).
C25_ReconnectDelaysDouble ==
    [][(watcher.pc = "backoff" /\ watcher.wait_kind = "reconnect" /\ watcher'.pc = "offline")
        => watcher.backoff = IF watcher.waited = 0 THEN WS_BACKOFF_BASE_DELAY
                             ELSE backoff_next(watcher.waited)]_vars

(***************************************************************************)
(* Properties of the client database                                       *)
(***************************************************************************)
\* Outside task `id` the tables are as before the operation.
OtherTasksUntouched(id) ==
    \A other \in SharedTaskIds \ {id} :
        /\ client.db.shared[other] = client.pre.shared[other]
        /\ client.db.local[other] = client.pre.local[other]

\* The change event e asks for is in the database.
TaskChangeCommitted(e) ==
    IF e.payload # "ok"
    THEN client.db.shared = client.pre.shared /\ client.db.local = client.pre.local
    ELSE /\ OtherTasksUntouched(e.task)
         /\ IF e.type = "task.deleted"
            THEN client.db.shared[e.task] = NoRow /\ client.db.local[e.task] = 0
            ELSE /\ client.db.shared[e.task] = Row(e.version, WatchedProject)
                 /\ client.db.local[e.task] >= client.pre.local[e.task]
                 /\ e.has_project /\ e.mine => client.db.local[e.task] = 1

\* C23: process_event is atomic: while it runs nothing of it is in the
\* database; after Ok the task change and cursor = event.seq are committed;
\* after an error no row and no cursor has changed.
C23_ProcessEventAtomic ==
    client.kind = "event" =>
        /\ client.pc = "tx" => client.db = client.pre
        /\ client.result = "Err" => client.db = client.pre
        /\ client.result = "Ok" =>
              client.db.cursor = client.input.seq /\ TaskChangeCommitted(client.input)

\* process_event failed at commit, after the task row and the cursor had been
\* written in the transaction.
C23_Witness ==
    /\ client.kind = "event"
    /\ client.result = "Err"
    /\ client.ran = Len(event_writes(client.input, client.linking_lock))
    /\ client.ran >= 3

ShareCreate(id, ok) ==
    /\ client.share = "idle"
    /\ client.db.shared[id] = NoRow
    /\ client' = IF ok THEN [client EXCEPT !.share = "created", !.shared_id = id]
                 ELSE [client EXCEPT !.share = "failed"]
    /\ UNCHANGED <<config, publisher, prune, wsclient, api, conn, alloc, sup, watcher, store, published, shards, ws, authVars, gateVars>>

\* The event of the creation made by share_task: created by and assigned to
\* the current user (assignee_user_id: Some(user_id), line 45), of a linked
\* project.
echo_event(id) ==
    [seq |-> 1, type |-> "task.upsert", task |-> id, version |-> 2,
     payload |-> "ok", mine |-> TRUE, has_project |-> TRUE]

\* The watcher's websocket delivers the echo to process_event.
ShareEchoArrives(ok) ==
    /\ client.share \in {"created", "upserted", "done", "failed"}
    /\ client.shared_id # 0
    /\ ~client.echoed
    /\ client.pc = "idle"
    /\ LET c == [client EXCEPT !.echoed = TRUE]
           event == echo_event(client.shared_id)
       IN client' =
            IF ~ok THEN [c EXCEPT !.pc = "done", !.kind = "event", !.input = event,
                                  !.pre = client.db, !.buf = client.db,
                                  !.writes = <<>>, !.result = "Err"]
            ELSE [c EXCEPT !.pc = "tx", !.kind = "event", !.input = event,
                           !.pre = client.db, !.buf = client.db,
                           !.writes = event_writes(event, client.linking_lock),
                           !.result = ""]
    /\ UNCHANGED <<config, publisher, prune, wsclient, api, conn, alloc, sup, watcher, store, published, shards, ws, authVars, gateVars>>

\* A statement on the pool, outside any transaction; SQLite runs it when no
\* transaction holds the write lock.
pool_write(c, w) ==
    [c EXCEPT !.db = do_write(c.db, w), !.buf = do_write(c.db, w)]

\* sync_shared_task, lines 151-152: SharedTask::upsert on the pool.
ShareUpsert(ok) ==
    /\ client.share = "created"
    /\ client.pc # "tx"
    /\ client' =
         IF ok THEN [pool_write(client, [op |-> "upsert", id |-> client.shared_id,
                                         version |-> 1, project |-> WatchedProject])
                       EXCEPT !.share = "upserted"]
         ELSE [client EXCEPT !.share = "failed"]
    /\ UNCHANGED <<config, publisher, prune, wsclient, api, conn, alloc, sup, watcher, store, published, shards, ws, authVars, gateVars>>

\* Task::set_shared_task_id(task.id, Some(remote_task.id)): one more local
\* task mirrors the shared task.
link_task(c, id) ==
    [c EXCEPT !.db.local[id] = @ + 1, !.buf.local[id] = c.db.local[id] + 1]

\* sync_shared_task, line 153.
ShareLink(ok) ==
    /\ client.share = "upserted"
    /\ client.pc # "tx"
    /\ client' =
         IF ok THEN [link_task(client, client.shared_id) EXCEPT !.share = "done"]
         ELSE [client EXCEPT !.share = "failed"]
    /\ UNCHANGED <<config, publisher, prune, wsclient, api, conn, alloc, sup, watcher, store, published, shards, ws, authVars, gateVars>>

\* A client database in which the task about to be shared is a local task
\* that mirrors no shared task.
InitShare ==
    /\ config = [shard_count |-> 1, shard_capacity |-> 1, batch_size |-> 1]
    /\ store = [p \in ProjectIds |-> 0]
    /\ published = [p \in ProjectIds |-> 0]
    /\ shards = [i \in ShardIds |-> <<>>]
    /\ ws = [s \in SessionIds |-> ClosedSession]
    /\ watcher = OfflineWatcher(None)
    /\ client \in {IdleClient(d) : d \in ClientDbs}
    /\ sup = IdleSup
    /\ alloc = IdleAlloc
    /\ conn = IdleConn
    /\ api = IdleApi
    /\ wsclient = IdleWsClient
    /\ prune = IdlePrune
    /\ publisher = IdlePublisher
    /\ AuthInit
    /\ GateInit

NextShare ==
    \/ \E id \in SharedTaskIds, ok \in BOOLEAN : ShareCreate(id, ok)
    \/ \E ok \in BOOLEAN : ShareEchoArrives(ok)
    \/ \E ok \in BOOLEAN : ShareUpsert(ok)
    \/ \E ok \in BOOLEAN : ShareLink(ok)
    \/ \E ok \in BOOLEAN : ClientTxWrite(ok)
    \/ \E ok \in BOOLEAN : ClientTxCommit(ok)

SpecShare == InitShare /\ [][NextShare]_vars

\* C29: sharing a task while its echo arrives never leaves two local tasks
\* that mirror the new shared task.
C29_NoSecondLocalTask ==
    client.shared_id # 0 => client.db.local[client.shared_id] <= 1

\* The supervisor with its watcher tasks; a spawned task is scheduled.
InitSupervisor ==
    /\ config = [shard_count |-> 1, shard_capacity |-> 1, batch_size |-> 1]
    /\ store = [p \in ProjectIds |-> IF p = WatchedProject THEN MaxSupSeq ELSE 0]
    /\ published = [p \in ProjectIds |-> 0]
    /\ shards = [i \in ShardIds |-> <<>>]
    /\ ws = [s \in SessionIds |-> ClosedSession]
    /\ watcher = OfflineWatcher(None)
    /\ client = IdleClient(EmptyDb)
    /\ sup \in {[IdleSup EXCEPT !.cursor = c] : c \in {None} \cup 1..MaxSupSeq}
    /\ alloc = IdleAlloc
    /\ conn = IdleConn
    /\ api = IdleApi
    /\ wsclient = IdleWsClient
    /\ prune = IdlePrune
    /\ publisher = IdlePublisher
    /\ AuthInit
    /\ GateInit

NextSupervisor ==
    \/ \E linked \in BOOLEAN : SupSetLinked(linked)
    \/ \E ok \in BOOLEAN : SupReconcile(ok)
    \/ SupWatcherEvent
    \/ SupShutdown
    \/ \E t \in TaskIds : TaskStep(t)

SpecSupervisor ==
    InitSupervisor /\ [][NextSupervisor]_vars /\ \A t \in TaskIds : WF_vars(TaskStep(t))

(***************************************************************************)
(* Properties of the supervisor and its watcher tasks                      *)
(***************************************************************************)
\* Task t has been spawned and has not returned.
task_running(t) == sup.tasks[t].pc \notin {"unborn", "exited"}

\* The places of project_watcher_task that poll shutdown_rx.
SelectPoints == {"auth_wait", "backoff_wait", "connected"}

C26_OneWatcherPerProject ==
    Cardinality({t \in TaskIds : task_running(t)}) <= 1

\* C27: once RemoteSync::run has returned from a requested shutdown, every
\* watcher task has finished.
C27_ReturnsAfterWatchers ==
    (sup.pc = "returned" /\ sup.result = "Ok") => \A t \in TaskIds : ~task_running(t)

\* C22: the persisted cursor of the project never decreases.
C22_CursorNeverDecreases ==
    [][sup'.cursor >= sup.cursor]_vars

(***************************************************************************)
(* Properties of the sequence allocator                                    *)
(***************************************************************************)
InitAlloc ==
    /\ config = [shard_count |-> 1, shard_capacity |-> 1, batch_size |-> 1]
    /\ store = [p \in ProjectIds |-> 0]
    /\ published = [p \in ProjectIds |-> 0]
    /\ shards = [i \in ShardIds |-> <<>>]
    /\ ws = [s \in SessionIds |-> ClosedSession]
    /\ watcher = OfflineWatcher(None)
    /\ client = IdleClient(EmptyDb)
    /\ sup = IdleSup
    /\ alloc = IdleAlloc
    /\ conn = IdleConn
    /\ api = IdleApi
    /\ wsclient = IdleWsClient
    /\ prune = IdlePrune
    /\ publisher = IdlePublisher
    /\ AuthInit
    /\ GateInit

NextAlloc ==
    \/ \E w \in WriterIds, p \in ProjectIds : WriterBegin(w, p)
    \/ \E w \in WriterIds : WriterInsert(w)
    \/ \E w \in WriterIds : WriterCommit(w)
    \/ \E w \in WriterIds : WriterAbort(w)

SpecAlloc == InitAlloc /\ [][NextAlloc]_vars

\* C30: the seqs committed to a project are 1, 2, 3, ... in commit order,
\* without gap or duplicate, whatever the writers do concurrently and
\* whichever inserts abort; the latest committed seq is their number.
C30_SeqGapFree ==
    \A p \in ProjectIds :
        /\ \A i \in 1..Len(alloc.committed[p]) : alloc.committed[p][i] = i
        /\ store[p] = Len(alloc.committed[p])

\* Two committed events of a project after a rolled-back insert, a second
\* writer waiting for the project's row while the first holds it.
C30_Witness ==
    \E p \in ProjectIds, w, v \in WriterIds :
        /\ Len(alloc.committed[p]) >= 2
        /\ alloc.aborted[p]
        /\ alloc.lock[p] = w
        /\ alloc.writers[v].pc = "waiting" /\ alloc.writers[v].project = p

\* C39: process_event on an event without a payload, or with one that is not
\* a shared-task payload, changes no shared-task row and no local task and
\* sets the cursor to event.seq; an activity frame of another project is
\* ignored: no row, no local task and no cursor changes.
C39_SkippedPayloadMovesCursorOnly ==
    /\ (client.kind = "event" /\ client.result = "Ok" /\ client.input.payload # "ok") =>
          /\ client.db.shared = client.pre.shared
          /\ client.db.local = client.pre.local
          /\ client.db.cursor = client.input.seq
    /\ client.event_project \notin {0, WatchedProject} =>
          client.pc = "done" /\ client.result = "Ok" /\ client.db = client.pre

\* An event without payload was processed on a database that held rows and
\* another cursor.
C39_Witness ==
    /\ client.kind = "event"
    /\ client.result = "Ok"
    /\ client.input.payload = "absent"
    /\ client.pre.cursor # client.input.seq
    /\ \E id \in SharedTaskIds : client.pre.shared[id] # NoRow /\ client.pre.local[id] = 1

(***************************************************************************)
(* Properties of the session touch                                         *)
(***************************************************************************)
\* C37: a touch sets last_used_at to the start of the current day when the
\* session was not yet used that day and leaves the row unchanged otherwise;
\* last_used_at never moves backwards.
C37_TouchIdempotentWithinDay ==
    [][\A r \in RequestIds :
          GateTouchAndRun(r, TRUE) =>
              LET id == requests[r].session.id
                  old == auth_sessions[id].last_used_at
                  new == auth_sessions'[id].last_used_at
                  today == date_trunc_day(now)
              IN /\ new >= old
                 /\ (old = None \/ old < today) => new = today
                 /\ (old # None /\ old >= today) => auth_sessions'[id] = auth_sessions[id]
                 /\ \A other \in AuthSessionIds \ {id} :
                       auth_sessions'[other] = auth_sessions[other]]_vars

\* Later in a day after the first: every request has passed the gate on a
\* session last used at the start of this day.
C37_Witness ==
    \E id \in AuthSessionIds :
        /\ auth_sessions[id].last_used_at = date_trunc_day(now)
        /\ now > date_trunc_day(now)
        /\ date_trunc_day(now) > 0
        /\ \A r \in RequestIds :
              requests[r].pc = "done" /\ requests[r].invoked /\ requests[r].session.id = id

(***************************************************************************)
(* The websocket connection's authorization on its own                     *)
(***************************************************************************)
\* A connection just opened by a request of user 1 that carried session 1
\* and an access token not yet expired.
InitConn ==
    /\ config = [shard_count |-> 1, shard_capacity |-> 1, batch_size |-> 1]
    /\ store = [p \in ProjectIds |-> 0]
    /\ published = [p \in ProjectIds |-> 0]
    /\ shards = [i \in ShardIds |-> <<>>]
    /\ ws = [s \in SessionIds |-> ClosedSession]
    /\ watcher = OfflineWatcher(None)
    /\ client = IdleClient(EmptyDb)
    /\ sup = IdleSup
    /\ alloc = IdleAlloc
    /\ \E token_expires_at \in 0..MaxConnNow :
          conn = OpenConn(1, token_expires_at, None)
    /\ api = IdleApi
    /\ wsclient = IdleWsClient
    /\ prune = IdlePrune
    /\ publisher = IdlePublisher
    /\ AuthInit
    /\ GateInit

NextConn ==
    \/ ConnActivity
    \/ \E frame \in InboundFrames : ConnInbound(frame)
    \/ \E lookup1_ok \in BOOLEAN, lookup2_ok \in BOOLEAN, sent_ok \in BOOLEAN :
          ConnAuthTick(lookup1_ok, lookup2_ok, sent_ok)
    \/ ConnClock
    \/ \E session_id \in {s \in AuthSessionIds : session_user[s] = ConnUserId} :
          ConnRevoke(session_id)
    \/ ConnLoseAccess

SpecConn == InitConn /\ [][NextConn]_vars

\* The buffered token passes decode and belongs to the connection's user.
TokenAdoptable(c) ==
    /\ decode_access_token_with_leeway(c.auth_state.new_access_token,
                                       WsTokenExpiryGrace, c.now)
    /\ c.auth_state.new_access_token.user_id = c.auth_state.expected_user_id

\* C40: at an auth tick a buffered token that decodes for the connection's
\* user replaces the tracked session by its own session_id, before that
\* session is validated; with no token buffered the tracked session stays.
\* Whether the tick keeps the connection open depends on the revocation of
\* the session tracked after the replacement only: with the reads
\* succeeding, the token in force not expired and the user still a member,
\* the connection stays open exactly if that session is not revoked,
\* whatever happened to the session the connection was opened with.
C40_AdoptedSessionReplacesTracked ==
    [][\A lookup1_ok \in BOOLEAN, lookup2_ok \in BOOLEAN, sent_ok \in BOOLEAN :
          ConnAuthTick(lookup1_ok, lookup2_ok, sent_ok) =>
             LET token == conn.auth_state.new_access_token
                 adopts == TokenAdoptable(conn)
                 none == token = NoAccessToken
                 tracked == IF adopts THEN token.session_id ELSE conn.auth_state.session_id
                 expires_at == IF adopts THEN token.expires_at
                               ELSE conn.auth_state.token_expires_at
             IN  /\ adopts => conn'.auth_state.session_id = token.session_id
                 /\ none => conn'.auth_state.session_id = conn.auth_state.session_id
                 /\ ((adopts \/ none) /\ lookup1_ok /\ lookup2_ok /\ conn.member
                        /\ expires_at + WsTokenExpiryGrace > conn.now)
                       => /\ conn'.pc = "live" <=> tracked \notin conn.revoked
                          /\ conn'.pc # "live" => conn'.error = "authorization revoked"]_vars

\* A tick let the connection stay open although the session it was opened
\* with was revoked by then: it tracks another session.
C40_Witness ==
    /\ conn.pc = "live"
    /\ conn.last = "tick_opened_revoked"
    /\ conn.auth_state.session_id # conn.opened_session
    /\ conn.auth_state.session_id \notin conn.revoked

\* C35: an inbound frame changes neither last_sent_seq, nor the frames sent,
\* nor the tracked session and expiry.  Ack, unparseable text and non-text
\* frames leave the subscription and the buffered token as they were too; an
\* AuthToken frame puts its token in the buffer, in place of any token there,
\* and the connection stays open whatever the token is; Close, a receive
\* error and the end of the stream terminate the session.  The auth tick
\* takes the buffered token.
C35_InboundFramesKeepDeliveryState ==
    /\ [][\A frame \in InboundFrames : ConnInbound(frame) =>
            /\ conn'.last_sent_seq = conn.last_sent_seq
            /\ conn'.frames = conn.frames
            /\ conn'.auth_state.session_id = conn.auth_state.session_id
            /\ conn'.auth_state.token_expires_at = conn.auth_state.token_expires_at
            /\ frame.type \in {"ack", "invalid_text", "non_text"} =>
                  /\ conn'.auth_state = conn.auth_state
                  /\ conn'.subscribed = conn.subscribed
                  /\ conn'.pc = conn.pc
            /\ frame.type = "auth_token" =>
                  /\ conn'.auth_state.new_access_token = frame.token
                  /\ conn'.subscribed = conn.subscribed
                  /\ conn'.pc = conn.pc
            /\ frame.type \in {"close", "receive_error", "end"} =>
                  conn'.pc = "terminated"]_vars
    /\ [][\A lookup1_ok \in BOOLEAN, lookup2_ok \in BOOLEAN, sent_ok \in BOOLEAN :
            ConnAuthTick(lookup1_ok, lookup2_ok, sent_ok) =>
               conn'.auth_state.new_access_token = NoAccessToken]_vars

\* A second AuthToken frame replaced the token buffered by the first; the
\* token now buffered is no access token, and the connection is open.
C35_Witness ==
    /\ conn.pc = "live"
    /\ conn.last = "auth_token_again"
    /\ conn.auth_state.new_access_token.kind = "garbage"
    /\ conn.last_sent_seq # None

\* C34: a failed auth tick sends one error frame and a Close frame, and the
\* message is the one of the failure: a revoked session gives "authorization
\* revoked", lost access "project access revoked", a token expired beyond the
\* grace "authorization expired", an undecodable token, a token of another
\* user or a failed session read "authorization error"; a token of another
\* user leaves the stored expiry.  Each failure is taken on its own, with the
\* checks before it passing.
C34_FailureDeterminesMessage ==
    [][\A lookup1_ok \in BOOLEAN, lookup2_ok \in BOOLEAN, sent_ok \in BOOLEAN :
          ConnAuthTick(lookup1_ok, lookup2_ok, sent_ok) =>
             LET token == conn.auth_state.new_access_token
                 undecodable == token.kind = "garbage"
                 mismatch == token.kind = "jwt"
                                /\ token.user_id # conn.auth_state.expected_user_id
                 own == token.kind = "jwt" /\ ~mismatch
                 expires_at == IF own THEN token.expires_at
                               ELSE conn.auth_state.token_expires_at
                 expired == expires_at + WsTokenExpiryGrace <= conn.now
                 adopted == own => lookup1_ok /\ token.session_id \notin conn.revoked
                 tracked == IF own THEN token.session_id ELSE conn.auth_state.session_id
                 read_failed == (own /\ ~lookup1_ok) \/ ~lookup2_ok
                 sound == ~undecodable /\ ~mismatch
             IN  /\ conn'.pc = "terminated" /\ sent_ok =>
                       conn'.frames = conn.frames \o
                           <<[type |-> "error", message |-> conn'.error],
                             [type |-> "close", message |-> ""]>>
                 /\ conn'.pc = "live" => conn'.frames = conn.frames
                 /\ undecodable \/ mismatch =>
                       conn'.pc = "terminated" /\ conn'.error = "authorization error"
                 /\ mismatch =>
                       conn'.auth_state.token_expires_at = conn.auth_state.token_expires_at
                 /\ sound /\ expired /\ adopted =>
                       conn'.pc = "terminated" /\ conn'.error = "authorization expired"
                 /\ sound /\ ~expired /\ read_failed /\ tracked \notin conn.revoked
                         /\ conn'.pc = "terminated" =>
                       conn'.error = "authorization error"
                 /\ sound /\ ~expired /\ ~read_failed /\ tracked \in conn.revoked =>
                       conn'.pc = "terminated" /\ conn'.error = "authorization revoked"
                 /\ sound /\ ~expired /\ ~read_failed /\ tracked \notin conn.revoked
                         /\ ~conn.member /\ conn'.pc = "terminated" =>
                       conn'.error = "project access revoked"]_vars

(***************************************************************************)
(* One remote API call on its own                                          *)
(***************************************************************************)
InitApi ==
    /\ config = [shard_count |-> 1, shard_capacity |-> 1, batch_size |-> 1]
    /\ store = [p \in ProjectIds |-> 0]
    /\ published = [p \in ProjectIds |-> 0]
    /\ shards = [i \in ShardIds |-> <<>>]
    /\ ws = [s \in SessionIds |-> ClosedSession]
    /\ watcher = OfflineWatcher(None)
    /\ client = IdleClient(EmptyDb)
    /\ sup = IdleSup
    /\ alloc = IdleAlloc
    /\ conn = IdleConn
    /\ api = IdleApi
    /\ wsclient = IdleWsClient
    /\ prune = IdlePrune
    /\ publisher = IdlePublisher
    /\ AuthInit
    /\ GateInit

NextApi ==
    \/ ApiCall
    \/ \E outcome \in AttemptOutcomes : ApiAttempt(outcome)
    \/ ApiRetry

SpecApi == InitApi /\ [][NextApi]_vars

\* C36: a call is attempted at most 3 times; an attempt failing with a
\* transient error (transport, timeout, 5xx) is followed by another one until
\* the third fails, and the call returns the first error that is not
\* transient (Auth for 401 and 403, Http for other statuses) at once.
C36_AtMostThreeAttempts ==
    /\ Len(api.attempts) <= 3
    /\ api.pc = "done" =>
          /\ api.result = api.attempts[Len(api.attempts)]
          /\ \A i \in 1..(Len(api.attempts) - 1) : should_retry(api.attempts[i])
          /\ (api.result.error # "" /\ should_retry(api.result)) => Len(api.attempts) = 3

(***************************************************************************)
(* The websocket task and the watcher that waits for it                    *)
(***************************************************************************)
InitWsClient ==
    /\ config = [shard_count |-> 1, shard_capacity |-> 1, batch_size |-> 1]
    /\ store = [p \in ProjectIds |-> 0]
    /\ published = [p \in ProjectIds |-> 0]
    /\ shards = [i \in ShardIds |-> <<>>]
    /\ ws = [s \in SessionIds |-> ClosedSession]
    /\ watcher = OfflineWatcher(None)
    /\ client = IdleClient(EmptyDb)
    /\ sup = IdleSup
    /\ alloc = IdleAlloc
    /\ conn = IdleConn
    /\ api = IdleApi
    /\ wsclient = IdleWsClient
    /\ prune = IdlePrune
    /\ publisher = IdlePublisher
    /\ AuthInit
    /\ GateInit

WsTaskStep ==
    \/ \E ok \in BOOLEAN : WsTaskBuildRequest(ok)
    \/ \E ok \in BOOLEAN : WsTaskConnect(ok)
    \/ \E by \in WsLoopBreaks : WsTaskBreak(by)
    \/ WsTaskOnClose
    \/ WsTaskEnd

WsWatcherStep == \E branch \in {"shutdown_rx", "close_rx"} : WsWatcherSelect(branch)

NextWsClient ==
    \/ WsClientSpawn
    \/ WsTaskStep
    \/ \E branch \in {"send", "incoming"} : WsTaskTurn(branch)
    \/ WsWatcherSignal
    \/ WsWatcherStep

\* The watcher is a spawned task that is polled when one of the futures of
\* its select is ready.
SpecWsClient == InitWsClient /\ [][NextWsClient]_vars /\ WF_vars(WsWatcherStep)

\* C38: once the websocket task has ended, whatever ended it, close_rx is
\* resolved (on_close sent on close_tx, or the handler that held it was
\* dropped), and a watcher waiting in its select leaves it.
C38_CloseSignalAlwaysResolves ==
    /\ [](wsclient.task = "ended" => close_rx_resolved(wsclient.close_tx))
    /\ (wsclient.task = "ended") ~> (wsclient.watcher # "select")

\* The task ended on a failed connect, without on_close, and the watcher
\* left its select through close_rx.
C38_Witness ==
    /\ wsclient.task = "ended"
    /\ wsclient.ended_by = "connect"
    /\ wsclient.close_tx = "dropped"
    /\ wsclient.watcher = "reconnect_wait"
    /\ wsclient.left_by = "close_rx"

(***************************************************************************)
(* Two server instances pruning                                            *)
(***************************************************************************)
InitPrune ==
    /\ config = [shard_count |-> 1, shard_capacity |-> 1, batch_size |-> 1]
    /\ store = [p \in ProjectIds |-> 0]
    /\ published = [p \in ProjectIds |-> 0]
    /\ shards = [i \in ShardIds |-> <<>>]
    /\ ws = [s \in SessionIds |-> ClosedSession]
    /\ watcher = OfflineWatcher(None)
    /\ client = IdleClient(EmptyDb)
    /\ sup = IdleSup
    /\ alloc = IdleAlloc
    /\ conn = IdleConn
    /\ api = IdleApi
    /\ wsclient = IdleWsClient
    /\ \E partitions \in SUBSET PartitionAges :
          prune = [IdlePrune EXCEPT !.partitions = partitions]
    /\ publisher = IdlePublisher
    /\ AuthInit
    /\ GateInit

NextPrune ==
    \/ \E w \in PruneWorkerIds, ok \in BOOLEAN : PruneBegin(w, ok)
    \/ \E w \in PruneWorkerIds, ok \in BOOLEAN : PruneTryLock(w, ok)
    \/ \E w \in PruneWorkerIds, ok \in BOOLEAN : PruneSelect(w, ok)
    \/ \E w \in PruneWorkerIds, outcome \in {"ok", "detach_failed", "drop_failed"} :
          PruneDrop(w, outcome)
    \/ \E w \in PruneWorkerIds : PruneDone(w)
    \/ \E w \in PruneWorkerIds, ok \in BOOLEAN : PruneUnlock(w, ok)
    \/ \E w \in PruneWorkerIds : PruneSessionEnds(w)

SpecPrune == InitPrune /\ [][NextPrune]_vars

\* C33: at most one worker is pruning at a time; a worker that did not get
\* the lock because it is held has dropped nothing and returned Ok; a worker
\* drops only partitions whose upper bound is at least 2 days old; and a
\* worker that took the lock no longer holds it when prune_old_partitions
\* has returned, whether with Ok or with Err.
C33_OnePrunerLockReleased ==
    /\ Cardinality({w \in PruneWorkerIds :
                       prune.workers[w].pc \in {"select", "drop", "unlock"}}) <= 1
    /\ \A w \in PruneWorkerIds :
          LET worker == prune.workers[w] IN
          /\ ~worker.acquired => worker.dropped = {}
          /\ (worker.pc = "returned" /\ ~worker.acquired /\ worker.result = "Ok") =>
                worker.dropped = {}
          /\ \A age \in worker.dropped : age >= PRUNE_AGE_DAYS
          /\ worker.pc = "returned" => prune.lock # w

(***************************************************************************)
(* Concurrent publisher handlers on one task                               *)
(***************************************************************************)
InitPublisher ==
    /\ config = [shard_count |-> 1, shard_capacity |-> 1, batch_size |-> 1]
    /\ store = [p \in ProjectIds |-> 0]
    /\ published = [p \in ProjectIds |-> 0]
    /\ shards = [i \in ShardIds |-> <<>>]
    /\ ws = [s \in SessionIds |-> ClosedSession]
    /\ watcher = OfflineWatcher(None)
    /\ client = IdleClient(EmptyDb)
    /\ sup = IdleSup
    /\ alloc = IdleAlloc
    /\ conn = IdleConn
    /\ api = IdleApi
    /\ wsclient = IdleWsClient
    /\ prune = IdlePrune
    /\ publisher = IdlePublisher
    /\ AuthInit
    /\ GateInit

NextPublisher ==
    \/ \E h \in HandlerIds, if_match \in IfMatches : PubBegin(h, if_match)
    \/ \E h \in HandlerIds, role_ok \in BOOLEAN, db_ok \in BOOLEAN : PubMutate(h, role_ok, db_ok)
    \/ \E h \in HandlerIds, ok \in BOOLEAN : PubCommit(h, ok)
    \/ \E h \in HandlerIds : PubPublish(h)

SpecPublisher == InitPublisher /\ [][NextPublisher]_vars

\* A handler's mutation failed in this step.
MutationFails(h) ==
    /\ publisher.handlers[h].pc \in {"begun", "written"}
    /\ publisher'.handlers[h].pc = "done"
    /\ publisher'.handlers[h].result # "Ok"

\* C31: the task's version is the number of activity rows committed, the
\* i-th committed row carries seq i and version i, every event published is
\* the event of a committed row, and the step in which a mutation fails
\* changes neither the task, nor the activity rows, nor what was published.
C31_MutationAndEventAtomic ==
    /\ [](/\ publisher.task.version = Len(publisher.activity)
          /\ \A i \in 1..Len(publisher.activity) :
                publisher.activity[i].seq = i /\ publisher.activity[i].version = i
          /\ \A i \in 1..Len(publisher.channel) :
                \E j \in 1..Len(publisher.activity) :
                   /\ publisher.activity[j].seq = publisher.channel[i].seq
                   /\ publisher.activity[j].handler = publisher.channel[i].handler)
    /\ [][\A h \in HandlerIds : MutationFails(h) =>
            /\ publisher'.task = publisher.task
            /\ publisher'.activity = publisher.activity
            /\ publisher'.channel = publisher.channel]_vars

\* One mutation is committed and published, and a second one, sent with the
\* version the first one was based on, has failed with Conflict.
C31_Witness ==
    /\ publisher.task.version = 1
    /\ Len(publisher.channel) = 1
    /\ \E h \in HandlerIds :
          /\ publisher.handlers[h].pc = "done"
          /\ publisher.handlers[h].result = "Conflict"
          /\ publisher.handlers[h].if_match = 0

====
